---- MODULE Spec2Model ----
(***************************************************************************)
(* Model of the wiki-diagrams mage targets: the dependency                 *)
(* verification / installation tasks (Go, Mermaid, Git, Docker, Deps) and  *)
(* the GitHub App key lookup (verifyGitHubAppKey, Docker.Secrets).         *)
(*                                                                         *)
(* The host is the state: what the external commands answer and what the   *)
(* file system holds is the record env.  Every mage target is one atomic   *)
(* action that runs the whole Go function on env, and leaves in `last` the *)
(* error it returned, the external commands it ran (argv by argv, in       *)
(* order), the key file it selected and the advisory lines it printed.     *)
(*                                                                         *)
(* Text is a sequence of one-character strings, so that strings.Fields,    *)
(* TrimPrefix, Contains, the glob pattern and sort order are computed.     *)
(* An error is the chain of its messages, outermost first (fmt.Errorf with *)
(* %w puts one message in front); nil is the empty chain.                  *)
(***************************************************************************)
EXTENDS Integers, Sequences, FiniteSets, TLC

VARIABLES env, last, tick

vars == <<env, last, tick>>

(***************************************************************************)
(* Bounds                                                                  *)
(***************************************************************************)
\* packages of the fixed list of VerifySystemLibs that the model tracks
NumLibs == 3
\* file names that may lie in ~/.config/github-apps
MaxNames == 3
\* lines of a markdown document that extractMMD scans
MaxLines == 3

(***************************************************************************)
(* Text                                                                    *)
(***************************************************************************)
\* the characters the model's texts use, in byte order
Ascii ==
    <<"\n", " ", "-", ".", "/", "0", "1", "2", "3", "4", "5", "6", "7", "8", "9",
      "@", "A", "_", "a", "b", "c", "d", "e", "f", "g", "h", "i", "j", "k", "l",
      "m", "n", "o", "p", "q", "r", "s", "t", "u", "v", "w", "x", "y", "z">>

Code(c) == CHOOSE i \in 1..Len(Ascii) : Ascii[i] = c

IsSpace(c) == c \in {" ", "\n"}

HasPrefix(s, p) == Len(s) >= Len(p) /\ SubSeq(s, 1, Len(p)) = p

HasSuffix(s, p) == Len(s) >= Len(p) /\ SubSeq(s, Len(s) - Len(p) + 1, Len(s)) = p

TrimPrefix(s, p) == IF HasPrefix(s, p) THEN SubSeq(s, Len(p) + 1, Len(s)) ELSE s

Contains(s, sub) == \E i \in 1..(Len(s) + 1) : HasPrefix(SubSeq(s, i, Len(s)), sub)

RECURSIVE TrimLeft(_)
TrimLeft(s) == IF s # <<>> /\ IsSpace(Head(s)) THEN TrimLeft(Tail(s)) ELSE s

RECURSIVE TrimRight(_)
TrimRight(s) ==
    IF s # <<>> /\ IsSpace(s[Len(s)]) THEN TrimRight(SubSeq(s, 1, Len(s) - 1)) ELSE s

TrimSpace(s) == TrimRight(TrimLeft(s))

\* strings.Fields: the maximal runs of non-space characters, in order
RECURSIVE FieldsFrom(_, _, _)
FieldsFrom(s, cur, acc) ==
    IF s = <<>>
    THEN IF cur = <<>> THEN acc ELSE Append(acc, cur)
    ELSE IF IsSpace(Head(s))
         THEN FieldsFrom(Tail(s), <<>>, IF cur = <<>> THEN acc ELSE Append(acc, cur))
         ELSE FieldsFrom(Tail(s), Append(cur, Head(s)), acc)

Fields(s) == FieldsFrom(s, <<>>, <<>>)

\* the first line of a text (strings.Split(s, "\n")[0])
RECURSIVE FirstLine(_)
FirstLine(s) ==
    IF s = <<>> \/ Head(s) = "\n" THEN <<>> ELSE <<Head(s)>> \o FirstLine(Tail(s))

\* byte-wise order of two texts (Go's < on strings, used by sort.Strings)
RECURSIVE LexLess(_, _)
LexLess(a, b) ==
    IF b = <<>> THEN FALSE
    ELSE IF a = <<>> THEN TRUE
    ELSE IF Head(a) = Head(b) THEN LexLess(Tail(a), Tail(b))
    ELSE Code(Head(a)) < Code(Head(b))

(***************************************************************************)
(* Texts of the program and of its surroundings                            *)
(***************************************************************************)
\* const TargetGoVersion = "1.25.3"
TargetGoVersion ==
    <<"1", ".", "2", "5", ".", "3">>

GoPrefix ==
    <<"g", "o">>

GoVersionWords ==
    <<"g", "o", " ", "v", "e", "r", "s", "i", "o", "n", " ">>

\* what `go version` may print
OutGoOld ==
    <<"g", "o", " ", "v", "e", "r", "s", "i", "o", "n", " ", "g", "o", "1", ".", "2",
      "4", ".", "0", " ", "l", "i", "n", "u", "x", "/", "a", "m", "d", "6", "4", "\n">>

OutGoShort ==
    <<"g", "o", " ", "v", "e", "r", "s", "i", "o", "n", "\n">>

\* what https://go.dev/VERSION?m=text may answer
RemotePinned ==
    <<"g", "o", "1", ".", "2", "5", ".", "3", "\n", "t", "i", "m", "e", " ", "2", "0",
      "2", "5", "-", "1", "0", "-", "1", "3", "\n">>

RemoteNewer ==
    <<"g", "o", "1", ".", "2", "6", ".", "0", "\n">>

\* const TargetMermaidVersion = "10.9.0"
TargetMermaidVersion ==
    <<"1", "0", ".", "9", ".", "0">>

\* what `mmdc --version` may print
OutMmdcBare ==
    <<"1", "0", ".", "9", ".", "0", "\n">>

OutMmdcOld ==
    <<"1", "0", ".", "8", ".", "0", "\n">>

OutMmdcLonger ==
    <<"1", "1", "0", ".", "9", ".", "0", "\n">>

KeyPattern1 ==
    <<"w", "i", "k", "i", "-", "d", "i", "a", "g", "r", "a", "m", "-", "p", "u", "b",
      "l", "i", "s", "h", "e", "r">>

KeyPattern2 ==
    <<".", "p", "e", "m">>

KeyJan ==
    <<"w", "i", "k", "i", "-", "d", "i", "a", "g", "r", "a", "m", "-", "p", "u", "b",
      "l", "i", "s", "h", "e", "r", ".", "2", "0", "2", "4", "-", "0", "1", "-", "0",
      "1", ".", "p", "e", "m">>

KeyJun ==
    <<"w", "i", "k", "i", "-", "d", "i", "a", "g", "r", "a", "m", "-", "p", "u", "b",
      "l", "i", "s", "h", "e", "r", ".", "2", "0", "2", "4", "-", "0", "6", "-", "0",
      "1", ".", "p", "e", "m">>

KeyReader ==
    <<"w", "i", "k", "i", "-", "d", "i", "a", "g", "r", "a", "m", "-", "r", "e", "a",
      "d", "e", "r", ".", "2", "0", "2", "5", "-", "0", "1", "-", "0", "1", ".", "p",
      "e", "m">>

KeyPlain ==
    <<"w", "i", "k", "i", "-", "d", "i", "a", "g", "r", "a", "m", "-", "p", "u", "b",
      "l", "i", "s", "h", "e", "r", ".", "p", "e", "m">>

KeyDash ==
    <<"w", "i", "k", "i", "-", "d", "i", "a", "g", "r", "a", "m", "-", "p", "u", "b",
      "l", "i", "s", "h", "e", "r", "-", "2", ".", "p", "e", "m">>

swarmSecretPath ==
    <<"/", "r", "u", "n", "/", "s", "e", "c", "r", "e", "t", "s", "/", "w", "i", "k",
      "i", "_", "d", "i", "a", "g", "r", "a", "m", "_", "a", "p", "p", "_", "k", "e",
      "y">>

secretName ==
    <<"w", "i", "k", "i", "_", "d", "i", "a", "g", "r", "a", "m", "_", "a", "p", "p",
      "_", "k", "e", "y">>

EnvKeyPath ==
    <<"/", "s", "r", "v", "/", "k", "e", "y", "s", "/", "a", "p", "p", ".", "p", "e",
      "m">>

Lib1 ==
    <<"l", "i", "b", "a", "t", "k", "1", ".", "0", "-", "0", "t", "6", "4">>

Lib2 ==
    <<"l", "i", "b", "a", "t", "k", "-", "b", "r", "i", "d", "g", "e", "2", ".", "0",
      "-", "0", "t", "6", "4">>

Lib3 ==
    <<"l", "i", "b", "c", "u", "p", "s", "2", "t", "6", "4">>

Lib4 ==
    <<"l", "i", "b", "d", "r", "m", "2">>

Lib5 ==
    <<"l", "i", "b", "x", "k", "b", "c", "o", "m", "m", "o", "n", "0">>

TrueLine ==
    <<"t", "r", "u", "e", "\n">>

FalseLine ==
    <<"f", "a", "l", "s", "e", "\n">>

NameOut ==
    <<"A", "d", "a", "\n">>

MailOut ==
    <<"a", "d", "a", "@", "e", "x", "a", "m", "p", "l", "e", ".", "c", "o", "m", "\n">>

linux ==
    <<"l", "i", "n", "u", "x">>

darwin ==
    <<"d", "a", "r", "w", "i", "n">>

windows ==
    <<"w", "i", "n", "d", "o", "w", "s">>

amd64 ==
    <<"a", "m", "d", "6", "4">>

arm64 ==
    <<"a", "r", "m", "6", "4">>

i386 ==
    <<"3", "8", "6">>

\* a line of white space
BlankLine ==
    <<" ", "\n">>

\* the text Docker.Secrets looks for in the error of `docker secret create`
AlreadyExists ==
    <<"a", "l", "r", "e", "a", "d", "y", " ", "e", "x", "i", "s", "t", "s">>

\* the daemon's complaint about a secret of that name
DaemonSaysExists ==
    <<"s", "e", "c", "r", "e", "t", " ", "w", "i", "k", "i", "_", "d", "i", "a", "g",
      "r", "a", "m", "_", "a", "p", "p", "_", "k", "e", "y", " ", "a", "l", "r", "e",
      "a", "d", "y", " ", "e", "x", "i", "s", "t", "s">>

\* an error text that says only how the command ended
ExitCodeText ==
    <<"f", "a", "i", "l", "e", "d", " ", "w", "i", "t", "h", " ", "e", "x", "i", "t",
      " ", "c", "o", "d", "e", " ", "1">>

\* the three places verifyGitHubAppKey looks in
EnvVarName ==
    <<"W", "I", "K", "I", "_", "A", "P", "P", "_", "P", "R", "I", "V", "A", "T", "E",
      "_", "K", "E", "Y", "_", "P", "A", "T", "H">>

LocalPattern ==
    <<"~", "/", ".", "c", "o", "n", "f", "i", "g", "/", "g", "i", "t", "h", "u", "b",
      "-", "a", "p", "p", "s", "/", "w", "i", "k", "i", "-", "d", "i", "a", "g", "r",
      "a", "m", "-", "p", "u", "b", "l", "i", "s", "h", "e", "r", "*", ".", "p", "e",
      "m">>

searchDir ==
    <<"~", "/", ".", "c", "o", "n", "f", "i", "g", "/", "g", "i", "t", "h", "u", "b",
      "-", "a", "p", "p", "s">>

TrueWord ==
    <<"t", "r", "u", "e">>

\* the directories of the diagram tasks
srcMDDir ==
    <<"a", "s", "s", "e", "t", "s", "/", "d", "i", "a", "g", "r", "a", "m", "s", "/",
      "s", "r", "c", "/">>

genMMDDir ==
    <<"a", "s", "s", "e", "t", "s", "/", "d", "i", "a", "g", "r", "a", "m", "s", "/",
      "g", "e", "n", "/", "m", "m", "d">>

genPNGDir ==
    <<"a", "s", "s", "e", "t", "s", "/", "d", "i", "a", "g", "r", "a", "m", "s", "/",
      "g", "e", "n", "/", "p", "n", "g">>

outputExt ==
    <<"p", "n", "g">>

\* the suffixes of the files the diagram tasks read and write
MdExt ==
    <<".", "m", "d">>

MmdExt ==
    <<".", "m", "m", "d">>

\* the grave accent (U+0060), a character that a string of TLA+ cannot hold
BackTick == "grave"

\* the fences extractMMD looks for: three grave accents, and those before "mermaid"
FenceMermaid ==
    <<BackTick, BackTick, BackTick, "m", "e", "r", "m", "a", "i", "d">>

Fence ==
    <<BackTick, BackTick, BackTick>>

\* diagram names: a document with a mermaid block, one without, one that is not there
NameFlow ==
    <<"f", "l", "o", "w">>

NameNotes ==
    <<"n", "o", "t", "e", "s">>

NameGhost ==
    <<"g", "h", "o", "s", "t">>

\* what the documents hold
DataFlow ==
    <<"#", " ", "f", "l", "o", "w", "\n", BackTick, BackTick, BackTick,
      "m", "e", "r", "m", "a", "i", "d", "\n", "g", "r", "a", "p", "h", " ", "T", "D", "\n",
      "a", " ", "-", "-", ">", " ", "b", "\n", BackTick, BackTick, BackTick, "\n">>

DataNotes ==
    <<"#", " ", "n", "o", "t", "e", "s", "\n", BackTick, BackTick, BackTick,
      "g", "o", "\n", "x", "\n", BackTick, BackTick, BackTick, "\n">>

\* a file of the source directory that is no markdown document
FileReadme ==
    <<"r", "e", "a", "d", "m", "e", ".", "t", "x", "t">>

(***************************************************************************)
(* Results of running a piece of code on a host                            *)
(***************************************************************************)
NoErr == <<>>

\* one error message with the values formatted into it
Msg(msg, args) == [msg |-> msg, args |-> args]

\* what a command that exits non-zero returns (an *exec.ExitError, or sh.RunV's error)
ExitErr == <<Msg("exit status", <<>>)>>

\* one external command or system call: the fixed words and the computed arguments
Cmd(words, args) == [cmd |-> words, args |-> args]

\* nothing ran, nothing failed
Ok(e) == [env |-> e, err |-> NoErr, tr |-> <<>>, sel |-> <<>>, notes |-> <<>>]

\* one command ran on e, ended with err and left the host as e2
Ran(c, e2, err) == [env |-> e2, err |-> err, tr |-> <<c>>, sel |-> <<>>, notes |-> <<>>]

\* r2 was run after r1
Join(r1, r2) ==
    [env |-> r2.env, err |-> r2.err, tr |-> r1.tr \o r2.tr,
     sel |-> IF r2.sel # <<>> THEN r2.sel ELSE r1.sel,
     notes |-> r1.notes \o r2.notes]

\* fmt.Errorf("msg: %w", err)
Wrap(msg, r) == [r EXCEPT !.err = <<Msg(msg, <<>>)>> \o r.err]

\* fmt.Errorf("msg %s: %w", args..., err)
WrapWith(msg, args, r) == [r EXCEPT !.err = <<Msg(msg, args)>> \o r.err]

\* fmt.Errorf("msg", args...) or errors.New("msg"), in place of r's error
Fail(msg, args, r) == [r EXCEPT !.err = <<Msg(msg, args)>>]

\* an error that the code drops (`if err := ...; err == nil { ... }`, `out, _ := ...`)
Swallow(r) == [r EXCEPT !.err = NoErr]

\* an advisory line on standard output
Note(msg, r) == [r EXCEPT !.notes = Append(r.notes, msg)]

\* the result of exec.Command(...).Output(): whether it exited 0, and what it wrote
NoOut == [ok |-> FALSE, out |-> <<>>]

OutOf(s) == [ok |-> TRUE, out |-> s]

\* the names of the messages of an error chain, outermost first
Msgs(err) == [i \in 1..Len(err) |-> err[i].msg]

\* the fixed words of the commands of a trace, in order
Cmds(tr) == [i \in 1..Len(tr) |-> tr[i].cmd]

(***************************************************************************)
(* Go toolchain (part_000)                                                 *)
(***************************************************************************)
\* what `go version` of a freshly extracted toolchain prints
OutGoFresh(version, goOS, goArch) ==
    GoVersionWords \o GoPrefix \o version \o <<" ">> \o goOS \o <<"/">> \o goArch \o <<"\n">>

\* exec.Command("go", "version").Output(): the first `go` on PATH answers
GoVersionOutput(e) == IF e.goInPath THEN e.localGo ELSE e.otherGo

\* exec.LookPath("go")
LookPathGo(e) == IF e.goInPath THEN e.localGo.ok ELSE e.otherGo.ok

\* a drift check that takes a failed fetch for a failure
checkGoVersionLatestStrict(e) ==
    LET res == e.goRemote
        r0 == Ran(Cmd(<<"curl", "-s", "https://go.dev/VERSION?m=text">>, <<>>), e,
                  IF res.ok THEN NoErr ELSE ExitErr)
    IN  IF ~res.ok THEN Wrap("Go version update check failed", r0) ELSE r0

checkGoVersionLatest(e) ==
    LET res == e.goRemote
        r0 == Ran(Cmd(<<"curl", "-s", "https://go.dev/VERSION?m=text">>, <<>>), e, NoErr)
        latest == TrimPrefix(TrimSpace(FirstLine(TrimSpace(res.out))), GoPrefix)
    IN  IF ~res.ok
        THEN Note("Skipping Go version update check (network unavailable or offline).", r0)
        ELSE IF latest = <<>>
        THEN Note("Unable to parse Go version information from remote source.", r0)
        ELSE IF latest # TargetGoVersion
        THEN Note("Note: a newer Go version is available", r0)
        ELSE r0

verifyGoVersion(e) ==
    LET res == GoVersionOutput(e)
        r0 == Ran(Cmd(<<"go", "version">>, <<>>), e, NoErr)
        fields == Fields(res.out)
        current == TrimPrefix(fields[3], GoPrefix)
    IN  IF ~res.ok
        THEN Fail("go binary not found in PATH", <<>>, r0)
        ELSE IF Len(fields) < 3
        THEN Fail("unexpected output from 'go version'", <<res.out>>, r0)
        ELSE IF current # TargetGoVersion
        THEN Fail("Go version mismatch", <<current, TargetGoVersion>>, r0)
        ELSE Join(r0, checkGoVersionLatest(e))

GoVerify(e) == verifyGoVersion(e)

\* the download of the archive and of its checksum, and the checksum test.  curl is
\* run without --fail: when the server has no checksum file ("sum404") curl saves the
\* error page and exits 0, and sha256sum -c finds no checksum line in it; curl fails
\* only when it cannot fetch at all ("nosum").
installGoFetch(e, version) ==
    LET dl == Ran(Cmd(<<"curl", "-L", "-o", "/tmp/go.tar.gz">>, <<version>>), e,
                  IF e.goNet = "down" THEN ExitErr ELSE NoErr)
        sumdl == Ran(Cmd(<<"curl", "-s", "-L", "-o", "/tmp/go.tar.gz.sha256">>, <<version>>), e,
                     IF e.goNet = "nosum" THEN ExitErr ELSE NoErr)
        sumck == Ran(Cmd(<<"sha256sum", "-c">>, <<>>), e,
                     IF e.goNet \in {"sumbad", "sum404"} THEN ExitErr ELSE NoErr)
    IN  IF dl.err # NoErr
        THEN Wrap("failed to download Go", dl)
        ELSE IF sumdl.err # NoErr
        THEN Swallow(Join(dl, sumdl))
        ELSE IF sumck.err # NoErr
        THEN Wrap("checksum verification failed", Join(Join(dl, sumdl), sumck))
        ELSE Join(Join(dl, sumdl), sumck)

\* remove /usr/local/go, extract the archive, run the extracted binary
installGoExtract(e, version, goOS, goArch) ==
    LET gone == [e EXCEPT !.localGo = NoOut]
        fresh == [e EXCEPT !.localGo = IF e.goDisk = "binfail" THEN NoOut
                                       ELSE OutOf(OutGoFresh(version, goOS, goArch))]
        rm == Ran(Cmd(<<"sudo", "rm", "-rf", "/usr/local/go">>, <<>>),
                  IF e.goDisk = "rmfail" THEN e ELSE gone,
                  IF e.goDisk = "rmfail" THEN ExitErr ELSE NoErr)
        tar == Ran(Cmd(<<"sudo", "tar", "-C", "/usr/local", "-xzf">>, <<>>),
                   IF e.goDisk = "tarfail" THEN gone ELSE fresh,
                   IF e.goDisk = "tarfail" THEN ExitErr ELSE NoErr)
        run == Ran(Cmd(<<"/usr/local/go/bin/go", "version">>, <<>>), fresh,
                   IF fresh.localGo.ok THEN NoErr ELSE ExitErr)
        done == Join(Join(rm, tar), run)
    IN  IF rm.err # NoErr THEN rm
        ELSE IF tar.err # NoErr THEN Join(rm, tar)
        ELSE IF run.err # NoErr THEN done
        ELSE IF ~LookPathGo(fresh)
        THEN Note("Note: /usr/local/go/bin may not be in your PATH.", done)
        ELSE done

\* an installer that fetches the archive before it looks at the platform
installGoVersionFetchFirst(e, version) ==
    LET fetch == installGoFetch(e, version)
    IN  IF fetch.err # NoErr
        THEN fetch
        ELSE IF e.goos \notin {linux, darwin}
        THEN Fail("unsupported OS", <<e.goos>>, fetch)
        ELSE IF e.goarch \notin {amd64, arm64}
        THEN Fail("unsupported architecture", <<e.goarch>>, fetch)
        ELSE Join(fetch, installGoExtract(fetch.env, version, e.goos, e.goarch))

installGoVersion(e, version) ==
    LET fetch == installGoFetch(e, version)
    IN  IF e.goos \notin {linux, darwin}
        THEN Fail("unsupported OS", <<e.goos>>, Ok(e))
        ELSE IF e.goarch \notin {amd64, arm64}
        THEN Fail("unsupported architecture", <<e.goarch>>, Ok(e))
        ELSE IF fetch.err # NoErr
        THEN fetch
        ELSE Join(fetch, installGoExtract(fetch.env, version, e.goos, e.goarch))

\* Go.Deps that tries the installer a second time when it failed
GoDepsRetries(e) ==
    LET v1 == GoVerify(e)
        inst1 == Join(v1, installGoVersion(e, TargetGoVersion))
        inst == IF inst1.err = NoErr THEN inst1
                ELSE Join(inst1, installGoVersion(inst1.env, TargetGoVersion))
        v2 == Join(inst, GoVerify(inst.env))
    IN  IF v1.err = NoErr THEN v1
        ELSE IF inst.err # NoErr THEN Wrap("failed to install Go", inst)
        ELSE IF v2.err # NoErr THEN Wrap("Go installation did not verify successfully", v2)
        ELSE v2

\* Go.Deps that trusts the installer: no second Verify
GoDepsNoReverify(e) ==
    LET v1 == GoVerify(e)
        inst == Join(v1, installGoVersion(e, TargetGoVersion))
    IN  IF v1.err = NoErr THEN v1
        ELSE IF inst.err # NoErr THEN Wrap("failed to install Go", inst)
        ELSE inst

GoDeps(e) ==
    LET v1 == GoVerify(e)
        inst == Join(v1, installGoVersion(e, TargetGoVersion))
        v2 == Join(inst, GoVerify(inst.env))
    IN  IF v1.err = NoErr THEN v1
        ELSE IF inst.err # NoErr THEN Wrap("failed to install Go", inst)
        ELSE IF v2.err # NoErr THEN Wrap("Go installation did not verify successfully", v2)
        ELSE v2

(***************************************************************************)
(* Mermaid CLI (part_002, lines 1-147)                                     *)
(***************************************************************************)
\* the head of the fixed package list of VerifySystemLibs
AllLibs == <<Lib1, Lib2, Lib3, Lib4, Lib5>>

libs == SubSeq(AllLibs, 1, NumLibs)

MermaidVerify(e) ==
    LET res == e.mmdc
        r0 == Ran(Cmd(<<"mmdc", "--version">>, <<>>), e, NoErr)
        version == TrimSpace(res.out)
    IN  IF ~res.ok
        THEN Fail("Mermaid CLI not found in PATH", <<>>, r0)
        ELSE IF ~Contains(version, TargetMermaidVersion)
        THEN Fail("Mermaid CLI version mismatch", <<version, TargetMermaidVersion>>, r0)
        ELSE r0

\* a system-library check that installs the whole list when a package is missing
MermaidVerifySystemLibsInstallsAll(e) ==
    LET probes == [i \in 1..Len(libs) |-> Cmd(<<"dpkg", "-s">>, <<libs[i]>>)]
        missing == SelectSeq(libs, LAMBDA pkg : pkg \notin e.libs)
        r0 == [Ok(e) EXCEPT !.tr = probes]
        upd == Ran(Cmd(<<"sudo", "apt-get", "update", "-q">>, <<>>), e,
                   IF e.apt = "updfail" THEN ExitErr ELSE NoErr)
        inst == Ran(Cmd(<<"sudo", "apt-get", "install", "-y">>, libs),
                    IF e.apt = "instfail" THEN e
                    ELSE [e EXCEPT !.libs = e.libs \cup {libs[i] : i \in 1..Len(libs)}],
                    IF e.apt = "instfail" THEN ExitErr ELSE NoErr)
    IN  IF Len(missing) = 0 THEN r0
        ELSE IF upd.err # NoErr
        THEN Wrap("failed to update package lists", Join(r0, upd))
        ELSE IF inst.err # NoErr
        THEN Wrap("failed to install required libraries", Join(Join(r0, upd), inst))
        ELSE Join(Join(r0, upd), inst)

MermaidVerifySystemLibs(e) ==
    LET probes == [i \in 1..Len(libs) |-> Cmd(<<"dpkg", "-s">>, <<libs[i]>>)]
        missing == SelectSeq(libs, LAMBDA pkg : pkg \notin e.libs)
        r0 == [Ok(e) EXCEPT !.tr = probes]
        upd == Ran(Cmd(<<"sudo", "apt-get", "update", "-q">>, <<>>), e,
                   IF e.apt = "updfail" THEN ExitErr ELSE NoErr)
        inst == Ran(Cmd(<<"sudo", "apt-get", "install", "-y">>, missing),
                    IF e.apt = "instfail" THEN e
                    ELSE [e EXCEPT !.libs = e.libs \cup {missing[i] : i \in 1..Len(missing)}],
                    IF e.apt = "instfail" THEN ExitErr ELSE NoErr)
    IN  IF Len(missing) = 0 THEN r0
        ELSE IF upd.err # NoErr
        THEN Wrap("failed to update package lists", Join(r0, upd))
        ELSE IF inst.err # NoErr
        THEN Wrap("failed to install required libraries", Join(Join(r0, upd), inst))
        ELSE Join(Join(r0, upd), inst)

\* npm install -g @mermaid-js/mermaid-cli@<version>
npmInstallMermaid(e) ==
    Ran(Cmd(<<"npm", "install", "-g", "@mermaid-js/mermaid-cli@">>, <<TargetMermaidVersion>>),
        IF e.npm = "ok" THEN [e EXCEPT !.mmdc = OutOf(OutMmdcBare)] ELSE e,
        IF e.npm = "fail" THEN ExitErr ELSE NoErr)

MermaidDeps(e) ==
    LET sys == MermaidVerifySystemLibs(e)
        v1 == Join(sys, MermaidVerify(sys.env))
        inst == Join(v1, npmInstallMermaid(v1.env))
        v2 == Join(inst, MermaidVerify(inst.env))
    IN  IF sys.err # NoErr THEN Wrap("system library verification failed", sys)
        ELSE IF v1.err = NoErr THEN v1
        ELSE IF inst.err # NoErr THEN Wrap("failed to install Mermaid CLI", inst)
        ELSE IF v2.err # NoErr
        THEN Wrap("Mermaid CLI installation did not verify successfully", v2)
        ELSE v2

(***************************************************************************)
(* Git (magefiles/git.go)                                                  *)
(***************************************************************************)
GitVerify(e) ==
    LET r0 == Ran(Cmd(<<"git", "--version">>, <<>>), e, IF e.git THEN NoErr ELSE ExitErr)
    IN  IF r0.err # NoErr THEN Wrap("Git not found in PATH", r0) ELSE r0

\* exec.Command("git", "config", "--global", key).Output(), the error dropped
gitConfigGet(e, key, value) ==
    [out |-> IF e.git THEN value ELSE <<>>,
     r |-> Swallow(Ran(Cmd(<<"git", "config", "--global", key>>, <<>>), e,
                       IF e.git /\ value # <<>> THEN NoErr ELSE ExitErr))]

\* Git.Config that takes a missing identity for a failure
GitConfigStrict(e) ==
    LET name == gitConfigGet(e, "user.name", e.gitName)
        email == gitConfigGet(e, "user.email", e.gitEmail)
        r0 == Join(name.r, email.r)
    IN  IF TrimSpace(name.out) = <<>> \/ TrimSpace(email.out) = <<>>
        THEN Fail("Git user.name or user.email is not configured.", <<>>, r0)
        ELSE Note("Git user configured", r0)

GitConfig(e) ==
    LET name == gitConfigGet(e, "user.name", e.gitName)
        email == gitConfigGet(e, "user.email", e.gitEmail)
        r0 == Join(name.r, email.r)
    IN  IF TrimSpace(name.out) = <<>> \/ TrimSpace(email.out) = <<>>
        THEN Note("Git user.name or user.email is not configured.", r0)
        ELSE Note("Git user configured", r0)

GitDeps(e) ==
    LET v == GitVerify(e)
        c == Join(v, GitConfig(v.env))
    IN  IF v.err # NoErr THEN v ELSE c

(***************************************************************************)
(* Docker engine (part_002, lines 149-279)                                 *)
(***************************************************************************)
\* `docker buildx version` exits 0
buildxRuns(e) == e.dockerBin /\ e.buildx

verifyDockerEngine(e) ==
    LET look == Ran(Cmd(<<"exec.LookPath", "docker">>, <<>>), e, NoErr)
        ver == Ran(Cmd(<<"docker", "version", "--format", "{{.Server.Version}}">>, <<>>), e,
                   IF e.daemon THEN NoErr ELSE ExitErr)
        bx == Ran(Cmd(<<"docker", "buildx", "version">>, <<>>), e, NoErr)
    IN  IF ~e.dockerBin
        THEN Fail("docker binary not found in PATH", <<>>, look)
        ELSE IF ver.err # NoErr
        THEN Wrap("docker daemon not reachable", Join(look, ver))
        ELSE IF ~buildxRuns(e)
        THEN Fail("docker buildx plugin missing", <<>>, Join(Join(look, ver), bx))
        ELSE Join(Join(look, ver), bx)

\* the commands of ensureDockerInstalled, in order
dockerInstallCmds ==
    <<Cmd(<<"sudo", "apt-get", "update", "-y">>, <<>>),
      Cmd(<<"sudo", "apt-get", "install", "-y", "ca-certificates", "curl", "gnupg">>, <<>>),
      Cmd(<<"sudo", "install", "-m", "0755", "-d", "/etc/apt/keyrings">>, <<>>),
      Cmd(<<"bash", "-c", "curl ... | sudo gpg --dearmor -o /etc/apt/keyrings/docker.gpg">>, <<>>),
      Cmd(<<"bash", "-c", "echo deb ... | sudo tee /etc/apt/sources.list.d/docker.list">>, <<>>),
      Cmd(<<"sudo", "apt-get", "update", "-y", "(docker repository)">>, <<>>),
      Cmd(<<"sudo", "apt-get", "install", "-y", "docker-ce", "docker-ce-cli", "containerd.io",
            "docker-buildx-plugin", "docker-compose-plugin">>, <<>>)>>

ensureDockerInstalled(e) ==
    LET look == Ran(Cmd(<<"exec.LookPath", "docker">>, <<>>), e, NoErr)
        n == Len(dockerInstallCmds)
        \* the first command that fails, n + 1 when none does
        stop == IF e.dockerInst \in 1..n THEN e.dockerInst ELSE n + 1
        ran == SubSeq(dockerInstallCmds, 1, IF stop > n THEN n ELSE stop)
        after == [e EXCEPT !.dockerBin = TRUE, !.buildx = TRUE]
    IN  IF e.dockerBin THEN look
        ELSE IF stop <= n
        THEN Wrap("failed running", [look EXCEPT !.tr = look.tr \o ran, !.err = ExitErr])
        ELSE [look EXCEPT !.tr = look.tr \o ran, !.env = after]

ensureBuildxConfigured(e) ==
    LET bx == Ran(Cmd(<<"docker", "buildx", "version">>, <<>>), e, NoErr)
        inst == Ran(Cmd(<<"docker", "buildx", "install">>, <<>>),
                    IF e.dockerBin /\ e.buildxInst = "ok" THEN [e EXCEPT !.buildx = TRUE] ELSE e,
                    IF e.dockerBin /\ e.buildxInst # "fail" THEN NoErr ELSE ExitErr)
    IN  IF buildxRuns(e) THEN bx ELSE Join(bx, inst)

(***************************************************************************)
(* GitHub App key (part_002, lines 281-372)                                *)
(***************************************************************************)
\* os.Stat(path) succeeds.  A key file's path is written as its base name.
StatOk(e, path) ==
    IF path = swarmSecretPath THEN e.mount
    ELSE IF path = EnvKeyPath THEN e.srvKey
    ELSE path \in e.files /\ path \notin e.dangling

Stat(e, path) ==
    Ran(Cmd(<<"os.Stat">>, <<path>>), e, IF StatOk(e, path) THEN NoErr ELSE ExitErr)

\* filepath.Match("wiki-diagram-publisher*.pem", name): the star stands for any
\* run of characters other than the path separator
MatchesKeyPattern(name) ==
    /\ Len(name) >= Len(KeyPattern1) + Len(KeyPattern2)
    /\ HasPrefix(name, KeyPattern1)
    /\ HasSuffix(name, KeyPattern2)
    /\ \A i \in (Len(KeyPattern1) + 1)..(Len(name) - Len(KeyPattern2)) : name[i] # "/"

\* sort.Strings: the names of S in ascending byte order
RECURSIVE SortStrings(_)
SortStrings(S) ==
    IF S = {} THEN <<>>
    ELSE LET least == CHOOSE x \in S : \A y \in S \ {x} : LexLess(x, y)
         IN  <<least>> \o SortStrings(S \ {least})

\* a Glob that lists the directory: every name, sorted
GlobEveryName(e) == SortStrings(e.files)

\* filepath.Glob(searchDir/wiki-diagram-publisher*.pem): the directory's names that
\* match, sorted.  The pattern is fixed and well formed, so Glob returns no error.
Glob(e) == SortStrings({name \in e.files : MatchesKeyPattern(name)})

GlobCall(e) == Ran(Cmd(<<"filepath.Glob">>, <<LocalPattern>>), e, NoErr)

Selected(path, r) == [r EXCEPT !.sel = path]

\* verifyGitHubAppKey that goes on to the mount when the override names no file
verifyGitHubAppKeyFallsThrough(e) ==
    LET keyPath == e.keyEnv
        env0 == Ran(Cmd(<<"os.Getenv">>, <<EnvVarName>>), e, NoErr)
        st1 == Join(env0, Stat(e, keyPath))
        st2 == Join(st1, Stat(e, swarmSecretPath))
    IN  IF keyPath # <<>> /\ st1.err = NoErr
        THEN Selected(keyPath, Note("Using GitHub App key from environment variable", st1))
        ELSE IF st2.err = NoErr
        THEN Selected(swarmSecretPath, Note("Using GitHub App key from Docker secret", st2))
        ELSE WrapWith("GitHub App key missing at", <<keyPath>>, st2)

\* verifyGitHubAppKey that searches the key directory before it looks at the mount
verifyGitHubAppKeyLocalFirst(e) ==
    LET env0 == Ran(Cmd(<<"os.Getenv">>, <<EnvVarName>>), e, NoErr)
        matches == Glob(e)
        gl == Join(env0, GlobCall(e))
        st2 == Join(gl, Stat(e, swarmSecretPath))
    IN  IF e.keyEnv # <<>>
        THEN Selected(e.keyEnv, Join(env0, Stat(e, e.keyEnv)))
        ELSE IF Len(matches) > 0
        THEN Selected(matches[Len(matches)], Note("Using local GitHub App key", gl))
        ELSE IF st2.err = NoErr
        THEN Selected(swarmSecretPath, Note("Using GitHub App key from Docker secret", st2))
        ELSE Fail("no GitHub App key found - expected one of",
                  <<EnvVarName, swarmSecretPath, LocalPattern>>, st2)

verifyGitHubAppKey(e) ==
    LET keyPath == e.keyEnv
        env0 == Ran(Cmd(<<"os.Getenv">>, <<EnvVarName>>), e, NoErr)
        st1 == Join(env0, Stat(e, keyPath))
        st2 == Join(env0, Stat(e, swarmSecretPath))
        matches == Glob(e)
        gl == Join(st2, GlobCall(e))
        latestKey == matches[Len(matches)]
        st3 == Join(gl, Stat(e, latestKey))
    IN  IF keyPath # <<>>
        THEN IF st1.err # NoErr
             THEN WrapWith("GitHub App key missing at", <<keyPath>>, st1)
             ELSE Selected(keyPath,
                           Note("Using GitHub App key from environment variable", st1))
        ELSE IF st2.err = NoErr
        THEN Selected(swarmSecretPath, Note("Using GitHub App key from Docker secret", st2))
        ELSE IF Len(matches) = 0
        THEN Fail("no GitHub App key found - expected one of",
                  <<EnvVarName, swarmSecretPath, LocalPattern>>, gl)
        ELSE IF st3.err # NoErr
        THEN Wrap("GitHub App key found but unreadable", st3)
        ELSE Selected(latestKey, Note("Using local GitHub App key", st3))

\* a `docker info` that reports every host with a daemon as a manager
dockerInfoSwarmAlwaysManager(e) ==
    [out |-> TrueLine,
     r |-> Swallow(Ran(Cmd(<<"docker", "info", "--format", "{{.Swarm.ControlAvailable}}">>,
                           <<>>), e, NoErr))]

\* exec.Command("docker", "info", "--format", "{{.Swarm.ControlAvailable}}").Output(),
\* the error dropped
dockerInfoSwarm(e) ==
    [out |-> IF e.dockerBin /\ e.daemon THEN e.swarm ELSE <<>>,
     r |-> Swallow(Ran(Cmd(<<"docker", "info", "--format", "{{.Swarm.ControlAvailable}}">>,
                           <<>>), e,
                       IF e.dockerBin /\ e.daemon THEN NoErr ELSE ExitErr))]

\* sh.RunV("docker", "secret", "create", secretName, localKey).  The store refuses a
\* second secret of the same name.  The error is the one sh.RunV builds: whether its
\* text carries the daemon's complaint is the library's affair (e.runvQuotesStderr).
dockerSecretCreate(e, localKey) ==
    LET c == Cmd(<<"docker", "secret", "create">>, <<secretName, localKey>>)
    IN  IF e.inStore
        THEN Ran(c, e, <<Msg("sh.RunV", <<IF e.runvQuotesStderr THEN DaemonSaysExists
                                          ELSE ExitCodeText>>)>>)
        ELSE IF e.storeDown
        THEN Ran(c, e, <<Msg("sh.RunV", <<ExitCodeText>>)>>)
        ELSE Ran(c, [e EXCEPT !.inStore = TRUE], NoErr)

\* err.Error() of an error of one message
ErrorText(err) == IF err = NoErr \/ err[1].args = <<>> THEN <<>> ELSE err[1].args[1]

\* Docker.Secrets that looks at the mount only after it has searched the key directory
DockerSecretsSearchesFirst(e) ==
    LET matches == Glob(e)
        gl == GlobCall(e)
        st == Join(gl, Stat(e, swarmSecretPath))
        localKey == matches[Len(matches)]
        info == dockerInfoSwarm(e)
        found == Selected(localKey, Join(st, info.r))
        create == Join(found, dockerSecretCreate(e, localKey))
    IN  IF Len(matches) = 0
        THEN Fail("no local GitHub App key found in", <<searchDir>>, gl)
        ELSE IF st.err = NoErr
        THEN Selected(swarmSecretPath, Note("GitHub App key available via Docker secret", st))
        ELSE IF TrimSpace(info.out) = TrueWord
        THEN IF create.err # NoErr
             THEN IF Contains(ErrorText(create.err), AlreadyExists)
                  THEN Swallow(create)
                  ELSE Wrap("failed to create Docker secret", create)
             ELSE create
        ELSE found

DockerSecrets(e) ==
    LET st == Stat(e, swarmSecretPath)
        matches == Glob(e)
        gl == Join(st, GlobCall(e))
        localKey == matches[Len(matches)]
        info == dockerInfoSwarm(e)
        found == Selected(localKey, Join(gl, info.r))
        create == Join(found, dockerSecretCreate(e, localKey))
    IN  IF st.err = NoErr
        THEN Selected(swarmSecretPath, Note("GitHub App key available via Docker secret", st))
        ELSE IF Len(matches) = 0
        THEN Fail("no local GitHub App key found in", <<searchDir>>, gl)
        ELSE IF TrimSpace(info.out) = TrueWord
        THEN IF create.err # NoErr
             THEN IF Contains(ErrorText(create.err), AlreadyExists)
                  THEN Note("Docker secret already exists, skipping creation.",
                            Swallow(create))
                  ELSE Wrap("failed to create Docker secret", create)
             ELSE Note("Docker secret created successfully.", create)
        ELSE Note("Running in non-Swarm mode", found)

\* Docker.Verify that looks for the key the way Docker.Deps does, with Docker.Secrets
DockerVerifyProvisions(e) ==
    LET eng == verifyDockerEngine(e)
        key == Join(eng, DockerSecrets(eng.env))
    IN  IF eng.err # NoErr THEN Wrap("Docker Engine & Buildx check failed", eng)
        ELSE IF key.err # NoErr THEN Wrap("GitHub App Private Key check failed", key)
        ELSE key

DockerVerify(e) ==
    LET eng == verifyDockerEngine(e)
        key == Join(eng, verifyGitHubAppKey(eng.env))
    IN  IF eng.err # NoErr THEN Wrap("Docker Engine & Buildx check failed", eng)
        ELSE IF key.err # NoErr THEN Wrap("GitHub App Private Key check failed", key)
        ELSE key

DockerDeps(e) ==
    LET inst == ensureDockerInstalled(e)
        bx == Join(inst, ensureBuildxConfigured(inst.env))
        sec == Join(bx, DockerSecrets(bx.env))
        ver == Join(sec, DockerVerify(sec.env))
    IN  IF inst.err # NoErr THEN Wrap("failed ensuring Docker Engine", inst)
        ELSE IF bx.err # NoErr THEN Wrap("failed ensuring Docker Buildx", bx)
        ELSE IF sec.err # NoErr THEN Wrap("failed ensuring GitHub App key secret", sec)
        ELSE IF ver.err # NoErr THEN Wrap("post-setup verification failed", ver)
        ELSE ver

(***************************************************************************)
(* Deps (part_001)                                                         *)
(***************************************************************************)
\* the progress line that opens a step: "Starting: <name>..." in Deps.All,
\* "Checking: <name>..." in Deps.Verify
Step(kind, name, e) == Ran(Cmd(<<kind, name>>, <<>>), e, NoErr)

\* step.fn() of a step of Deps.All or Deps.Verify
StepFn(fn, e) ==
    CASE fn = "Go.Deps" -> GoDeps(e)
      [] fn = "Mermaid.Deps" -> MermaidDeps(e)
      [] fn = "Git.Deps" -> GitDeps(e)
      [] fn = "Go.Verify" -> GoVerify(e)
      [] fn = "Mermaid.Verify" -> MermaidVerify(e)
      [] fn = "Git.Verify" -> GitVerify(e)

\* `for _, step := range steps`: announce the step, run it, and return its error
\* under the step's name, or go on to the next step after r
RECURSIVE RunSteps(_, _, _)
RECURSIVE AfterStep(_, _, _)
RunSteps(steps, kind, r) ==
    IF steps = <<>> THEN r
    ELSE AfterStep(steps, kind,
                   Join(Join(r, Step(kind, Head(steps).name, r.env)),
                        StepFn(Head(steps).fn, r.env)))

AfterStep(steps, kind, s) ==
    IF s.err # NoErr THEN Wrap(Head(steps).failed, s)
    ELSE RunSteps(Tail(steps), kind, s)

stepsVerify ==
    <<[name |-> "Go toolchain", fn |-> "Go.Verify",
       failed |-> "Go toolchain verification failed"],
      [name |-> "Mermaid CLI", fn |-> "Mermaid.Verify",
       failed |-> "Mermaid CLI verification failed"],
      [name |-> "Git availability", fn |-> "Git.Verify",
       failed |-> "Git availability verification failed"]>>

DepsVerify(e) == RunSteps(stepsVerify, "Checking", Ok(e))

\* mg.Deps(fn): runs fn and panics with its error when it fails
mgDeps(name, r) ==
    LET run == Join(Step("mg.Deps", name, r.env), r)
    IN  IF r.err # NoErr THEN Wrap("mg.Deps: panic", run) ELSE run

stepsAll ==
    <<[name |-> "Go toolchain", fn |-> "Go.Deps", failed |-> "Go toolchain failed"],
      [name |-> "Mermaid CLI", fn |-> "Mermaid.Deps", failed |-> "Mermaid CLI failed"],
      [name |-> "Git configuration", fn |-> "Git.Deps",
       failed |-> "Git configuration failed"]>>

\* a Deps.All that ends after its three steps, with no verification pipeline
PostInstallVerifySkipped(s) == s

\* what follows the loop of Deps.All: mg.Deps(Deps.Verify), unless the loop returned
PostInstallVerify(s) ==
    IF s.err # NoErr THEN s ELSE Join(s, mgDeps("Deps.Verify", DepsVerify(s.env)))

\* Deps.All that runs the verification pipeline whether or not a step failed
DepsAllVerifiesAnyway(e) ==
    LET s == RunSteps(stepsAll, "Starting", Ok(e))
        post == Join(s, mgDeps("Deps.Verify", DepsVerify(s.env)))
    IN  IF s.err # NoErr THEN [post EXCEPT !.err = s.err] ELSE post

DepsAll(e) == PostInstallVerify(RunSteps(stepsAll, "Starting", Ok(e)))

DepsMinimal(e) ==
    LET m == MermaidVerify(e)
        g == Join(m, GitVerify(m.env))
    IN  IF m.err # NoErr THEN Wrap("Mermaid CLI verification failed", m)
        ELSE IF g.err # NoErr THEN Wrap("Git verification failed", g)
        ELSE g

(***************************************************************************)
(* Diagrams: extracting the mermaid blocks of the documents and rendering  *)
(* them, and Mermaid.All, the pipeline in front of it                      *)
(***************************************************************************)
\* filepath.Join(dir, name) for a relative dir that may end with the separator
PathJoin(dir, name) ==
    (IF HasSuffix(dir, <<"/">>) THEN SubSeq(dir, 1, Len(dir) - 1) ELSE dir)
        \o <<"/">> \o name

\* filepath.Dir and filepath.Base of a path that holds a separator and does not end
\* with one
RECURSIVE LastSlash(_)
LastSlash(path) ==
    IF path = <<>> THEN 0
    ELSE IF path[Len(path)] = "/" THEN Len(path)
    ELSE LastSlash(SubSeq(path, 1, Len(path) - 1))

PathDir(path) == SubSeq(path, 1, LastSlash(path) - 1)

PathBase(path) == SubSeq(path, LastSlash(path) + 1, Len(path))

\* strings.TrimSuffix
TrimSuffix(s, suffix) ==
    IF HasSuffix(s, suffix) THEN SubSeq(s, 1, Len(s) - Len(suffix)) ELSE s

\* strings.Split(s, "\n"): the pieces between the newlines, the empty ones included
RECURSIVE SplitLinesFrom(_, _, _)
SplitLinesFrom(s, cur, acc) ==
    IF s = <<>> THEN Append(acc, cur)
    ELSE IF Head(s) = "\n" THEN SplitLinesFrom(Tail(s), <<>>, Append(acc, cur))
    ELSE SplitLinesFrom(Tail(s), Append(cur, Head(s)), acc)

SplitLines(s) == SplitLinesFrom(s, <<>>, <<>>)

\* strings.Join(lines, "\n")
RECURSIVE JoinLines(_)
JoinLines(lines) ==
    IF lines = <<>> THEN <<>>
    ELSE IF Len(lines) = 1 THEN Head(lines)
    ELSE Head(lines) \o <<"\n">> \o JoinLines(Tail(lines))

\* the markdown document of a diagram name, and what a document holds
DocPath(name) == PathJoin(srcMDDir, name \o MdExt)

DocData(e, path) ==
    IF path = DocPath(NameFlow) THEN e.flow
    ELSE IF path = DocPath(NameNotes) THEN DataNotes
    ELSE <<>>

\* os.MkdirAll(dir, 0755); the generated directories can always be made
ensureDir(e, dir) == Ran(Cmd(<<"os.MkdirAll">>, <<dir>>), e, NoErr)

\* os.WriteFile and mmdc's output: the file at path now holds data
PutFile(e, path, data) ==
    [e EXCEPT !.gen = {g \in @ : g.path # path} \cup {[path |-> path, data |-> data]}]

\* a scanner for which a fence of any language opens a block
RECURSIVE ScanMMDAnyFenceOpens(_, _, _)
ScanMMDAnyFenceOpens(lines, inBlock, output) ==
    IF lines = <<>> THEN output
    ELSE IF HasPrefix(TrimSpace(Head(lines)), Fence)
         THEN ScanMMDAnyFenceOpens(Tail(lines), ~inBlock, output)
    ELSE IF inBlock THEN ScanMMDAnyFenceOpens(Tail(lines), TRUE, Append(output, Head(lines)))
    ELSE ScanMMDAnyFenceOpens(Tail(lines), FALSE, output)

\* the scanner of extractMMD: the lines between a line that starts with FenceMermaid
\* and the next line that starts with Fence, with the fences left out
RECURSIVE ScanMMD(_, _, _)
ScanMMD(lines, inBlock, output) ==
    IF lines = <<>> THEN output
    ELSE IF HasPrefix(TrimSpace(Head(lines)), FenceMermaid)
         THEN ScanMMD(Tail(lines), TRUE, output)
    ELSE IF HasPrefix(TrimSpace(Head(lines)), Fence) /\ inBlock
         THEN ScanMMD(Tail(lines), FALSE, output)
    ELSE IF inBlock THEN ScanMMD(Tail(lines), TRUE, Append(output, Head(lines)))
    ELSE ScanMMD(Tail(lines), FALSE, output)

WriteMMD(rd, mmdPath, output) ==
    IF Len(output) = 0 THEN rd
    ELSE Join(Join(rd, ensureDir(rd.env, PathDir(mmdPath))),
              Ran(Cmd(<<"os.WriteFile">>, <<mmdPath>>),
                  PutFile(rd.env, mmdPath, JoinLines(output)), NoErr))

extractMMD(e, mdPath, mmdPath) ==
    LET rd == Ran(Cmd(<<"os.ReadFile">>, <<mdPath>>), e,
                  IF mdPath \in e.docs THEN NoErr ELSE ExitErr)
        output == ScanMMD(SplitLines(DocData(e, mdPath)), FALSE, <<>>)
    IN  IF mdPath \notin e.docs THEN rd
        ELSE IF Len(output) = 0 THEN Fail("no mermaid block found in", <<mdPath>>, rd)
        ELSE WriteMMD(rd, mmdPath, output)

\* mmdc -i input -o output with the two configuration files and the background
\* colour: it writes the image when the CLI runs and the input is there
renderFile(e, input, output) ==
    IF e.mmdc.ok /\ \E g \in e.gen : g.path = input
    THEN Ran(Cmd(<<"mmdc", "-i", "-o">>, <<input, output>>),
             PutFile(e, output, <<>>), NoErr)
    ELSE Ran(Cmd(<<"mmdc", "-i", "-o">>, <<input, output>>), e, ExitErr)

mmdPathOf(base) == PathJoin(genMMDDir, base \o MmdExt)

svgPathOf(base) == PathJoin(genPNGDir, base \o <<".">> \o outputExt)

\* the walk of Diagrams.RenderAll over the entries of srcMDDir in lexical order:
\* extract and render every .md file, stop at the first failure
RECURSIVE WalkDocs(_, _)
RECURSIVE AfterExtract(_, _, _)
RECURSIVE AfterRender(_, _, _)
WalkDocs(paths, r) ==
    IF paths = <<>> THEN r
    ELSE IF ~HasSuffix(Head(paths), MdExt) THEN WalkDocs(Tail(paths), r)
    ELSE AfterExtract(paths, TrimSuffix(PathBase(Head(paths)), MdExt),
             Join(r, extractMMD(r.env, Head(paths),
                                mmdPathOf(TrimSuffix(PathBase(Head(paths)), MdExt)))))

AfterExtract(paths, base, x) ==
    IF x.err # NoErr THEN WrapWith("failed to extract MMD from", <<Head(paths)>>, x)
    ELSE AfterRender(paths, base,
             Join(x, renderFile(x.env, mmdPathOf(base), svgPathOf(base))))

AfterRender(paths, base, x) ==
    IF x.err # NoErr THEN WrapWith("failed to render SVG for", <<base>>, x)
    ELSE WalkDocs(Tail(paths), x)

WalkSrc(d) ==
    IF ~d.env.srcDir THEN Join(d, Ran(Cmd(<<"filepath.Walk">>, <<srcMDDir>>), d.env, ExitErr))
    ELSE WalkDocs(SortStrings(d.env.docs),
                  Join(d, Ran(Cmd(<<"filepath.Walk">>, <<srcMDDir>>), d.env, NoErr)))

DiagramsRenderAll(e) ==
    WalkSrc(Join(ensureDir(e, genMMDDir), ensureDir(e, genPNGDir)))

RenderOneRender(name, x) ==
    IF x.err # NoErr THEN x
    ELSE Join(x, renderFile(x.env, mmdPathOf(name), svgPathOf(name)))

DiagramsRenderOne(e, name) ==
    IF DocPath(name) \notin e.docs
    THEN Fail("markdown file not found", <<DocPath(name)>>,
              Ran(Cmd(<<"os.Stat">>, <<DocPath(name)>>), e, ExitErr))
    ELSE RenderOneRender(name,
             Join(Ran(Cmd(<<"os.Stat">>, <<DocPath(name)>>), e, NoErr),
                  extractMMD(e, DocPath(name), mmdPathOf(name))))

\* os.RemoveAll of the two generated directories
RemoveAll(e, dir) ==
    Ran(Cmd(<<"os.RemoveAll">>, <<dir>>),
        [e EXCEPT !.gen = {g \in @ : ~HasPrefix(g.path, dir \o <<"/">>)}], NoErr)

CleanPNG(r) == Join(r, RemoveAll(r.env, genPNGDir))

DiagramsClean(e) == CleanPNG(RemoveAll(e, genMMDDir))

\* Mermaid.All: mg.Deps(Deps.All), mg.Deps(Diagrams.Clean), mg.Deps(Diagrams.RenderAll)
MermaidAllRender(c) ==
    IF c.err # NoErr THEN c
    ELSE Join(c, mgDeps("Diagrams.RenderAll", DiagramsRenderAll(c.env)))

MermaidAllClean(a) ==
    IF a.err # NoErr THEN a
    ELSE MermaidAllRender(Join(a, mgDeps("Diagrams.Clean", DiagramsClean(a.env))))

MermaidAll(e) == MermaidAllClean(mgDeps("Deps.All", DepsAll(e)))

(***************************************************************************)
(* Hosts                                                                   *)
(***************************************************************************)
\* the names that may lie in ~/.config/github-apps
AllNames == <<KeyJan, KeyJun, KeyReader, KeyPlain, KeyDash>>

DirNames == {AllNames[i] : i \in 1..MaxNames}

\* a host on which every check passes and nothing needs installing
Healthy ==
    [goos |-> linux, goarch |-> amd64, goInPath |-> TRUE,
     localGo |-> OutOf(OutGoFresh(TargetGoVersion, linux, amd64)), otherGo |-> NoOut,
     goNet |-> "sumok", goDisk |-> "ok", goRemote |-> OutOf(RemotePinned),
     libs |-> {libs[i] : i \in 1..Len(libs)}, apt |-> "ok",
     mmdc |-> OutOf(OutMmdcBare), npm |-> "ok",
     git |-> TRUE, gitName |-> NameOut, gitEmail |-> MailOut,
     dockerBin |-> TRUE, daemon |-> TRUE, buildx |-> TRUE, dockerInst |-> 0,
     buildxInst |-> "ok",
     keyEnv |-> <<>>, srvKey |-> FALSE, mount |-> FALSE, files |-> {KeyJan},
     dangling |-> {}, swarm |-> FalseLine, inStore |-> FALSE, storeDown |-> FALSE,
     runvQuotesStderr |-> FALSE,
     srcDir |-> TRUE, docs |-> {}, flow |-> DataFlow, gen |-> {}]

GoOutputs == {NoOut, OutOf(OutGoFresh(TargetGoVersion, linux, amd64)), OutOf(OutGoOld)}

\* hosts that differ in the go on PATH, in /usr/local/go, in the download site and in
\* what sudo and the archive do
GoInstallHosts ==
    {[Healthy EXCEPT !.goInPath = t[1], !.localGo = t[2], !.otherGo = t[3], !.goNet = t[4],
                     !.goDisk = t[5]] :
        t \in {u \in BOOLEAN \X GoOutputs \X (GoOutputs \cup {OutOf(OutGoShort)})
                     \X {"down", "nosum", "sum404", "sumok", "sumbad"}
                     \X {"rmfail", "tarfail", "binfail", "ok"} :
                u[1] => u[3] = NoOut}}

\* hosts that differ in runtime.GOOS and runtime.GOARCH, with and without a toolchain
GoPlatformHosts ==
    {[Healthy EXCEPT !.goos = t[1], !.goarch = t[2], !.localGo = t[3]] :
        t \in {linux, darwin, windows} \X {amd64, arm64, i386} \X GoOutputs}

\* hosts that differ in what the release endpoint answers, with and without a toolchain
GoRemoteHosts ==
    {[Healthy EXCEPT !.goRemote = t[1], !.localGo = t[2]] :
        t \in {NoOut, OutOf(<<>>), OutOf(BlankLine), OutOf(RemotePinned), OutOf(RemoteNewer)}
              \X GoOutputs}

\* The platform is read before anything is run and the release endpoint only after
\* the version was found right, so each varies apart from the rest.
GoHosts == GoInstallHosts \cup GoPlatformHosts \cup GoRemoteHosts

\* hosts that differ in what the Mermaid tasks read: the installed packages, apt,
\* the mmdc on PATH, npm
MermaidHosts ==
    {[Healthy EXCEPT !.libs = t[1], !.apt = t[2], !.mmdc = t[3], !.npm = t[4]] :
        t \in (SUBSET Healthy.libs) \X {"updfail", "instfail", "ok"}
              \X {NoOut, OutOf(OutMmdcBare), OutOf(OutMmdcOld), OutOf(OutMmdcLonger)}
              \X {"fail", "ok", "hidden"}}

\* hosts that differ in what the Git tasks read
GitHosts ==
    {[Healthy EXCEPT !.git = t[1], !.gitName = t[2], !.gitEmail = t[3]] :
        t \in BOOLEAN \X {<<>>, BlankLine, NameOut} \X {<<>>, BlankLine, MailOut}}

\* the swarm and its secret store: what `docker info` prints, whether the secret is
\* in the store, whether the store is out of reach, what sh.RunV's error quotes.
\* The store is asked only by a manager.
SwarmStates ==
    {<<sw, FALSE, FALSE, FALSE>> : sw \in {<<>>, FalseLine}}
    \cup {<<TrueLine, TRUE, FALSE, q>> : q \in BOOLEAN}
    \cup {<<TrueLine, FALSE, d, q>> : d \in BOOLEAN, q \in BOOLEAN}

\* hosts that differ in where a key lies: the override, the mount, the names in the
\* key directory and the one of them, if any, that os.Stat cannot read
KeyLookupHosts ==
    {[Healthy EXCEPT !.keyEnv = t[1][1], !.srvKey = t[1][2], !.mount = t[2], !.files = t[3],
                     !.dangling = t[4]] :
        t \in {u \in {<<<<>>, FALSE>>, <<EnvKeyPath, TRUE>>, <<EnvKeyPath, FALSE>>}
                     \X BOOLEAN \X (SUBSET DirNames) \X (SUBSET DirNames) :
                u[4] \subseteq u[3] /\ Cardinality(u[4]) <= 1}}

\* hosts that differ in the swarm and its secret store, with no key, one or two
SwarmHosts ==
    {[Healthy EXCEPT !.keyEnv = t[1][1], !.srvKey = t[1][2], !.mount = t[2], !.files = t[3],
                     !.swarm = t[4][1], !.inStore = t[4][2], !.storeDown = t[4][3],
                     !.runvQuotesStderr = t[4][4]] :
        t \in {<<<<>>, FALSE>>, <<EnvKeyPath, TRUE>>, <<EnvKeyPath, FALSE>>}
                  \X BOOLEAN \X {{}, {KeyJan}, {KeyJan, KeyJun}} \X SwarmStates}

KeyHosts == KeyLookupHosts \cup SwarmHosts

\* three of them, for the hosts that differ in the Docker engine
SomeKeyHosts ==
    {Healthy,
     [Healthy EXCEPT !.files = {}],
     [Healthy EXCEPT !.swarm = TrueLine]}

\* hosts that differ in what the Docker engine checks read: the docker binary, the
\* daemon, the buildx plugin, which command of the installation fails (0: none)
DockerHosts ==
    {[k EXCEPT !.dockerBin = t[1], !.daemon = t[2], !.buildx = t[3], !.dockerInst = t[4],
               !.buildxInst = t[5]] :
        k \in SomeKeyHosts,
        t \in {u \in BOOLEAN \X BOOLEAN \X BOOLEAN \X (0..Len(dockerInstallCmds))
                     \X {"fail", "ok", "noop"} :
                u[1] => u[4] = 0}}

\* hosts that differ in the Go toolchain, the Mermaid CLI and Git together, for the
\* tasks of Deps that run one after the other
CrossHosts ==
    {[Healthy EXCEPT !.localGo = g[1], !.goNet = g[2],
                     !.libs = m[1], !.apt = m[2], !.mmdc = m[3], !.npm = m[4],
                     !.git = gi] :
        g \in {<<Healthy.localGo, "sumok">>, <<NoOut, "sumok">>, <<NoOut, "down">>,
               <<OutOf(OutGoOld), "sumbad">>},
        m \in {<<Healthy.libs, "ok", Healthy.mmdc, "ok">>,
               <<Healthy.libs, "ok", NoOut, "ok">>,
               <<Healthy.libs, "ok", OutOf(OutMmdcOld), "fail">>,
               <<{}, "instfail", Healthy.mmdc, "ok">>,
               <<{}, "ok", NoOut, "hidden">>},
        gi \in BOOLEAN}

\* the diagram tasks: which documents lie in the source directory, whether the
\* directory is there, what an earlier run left behind, and the state of the CLI
DocSets ==
    {{}, {DocPath(NameFlow)}, {DocPath(NameNotes)},
     {DocPath(NameFlow), DocPath(NameNotes)},
     {DocPath(NameFlow), PathJoin(srcMDDir, FileReadme)}}

DiagramHosts ==
    {[Healthy EXCEPT !.docs = d, !.mmdc = m] :
        d \in DocSets, m \in {Healthy.mmdc, NoOut, OutOf(OutMmdcOld)}}
    \cup {[Healthy EXCEPT !.srcDir = FALSE],
          [Healthy EXCEPT !.gen = {[path |-> mmdPathOf(NameGhost), data |-> <<>>],
                                   [path |-> svgPathOf(NameGhost), data |-> <<>>]}]}

\* the lines a document is made of here: the two fences, an indented opening fence,
\* the fence of another language, and two lines of text
ScanLineSet ==
    {FenceMermaid, Fence, <<" ", " ">> \o FenceMermaid, Fence \o <<"g", "o">>,
     <<"a">>, <<" ", "b">>}

LineSeqs == UNION {[1..n -> ScanLineSet] : n \in 0..MaxLines}

\* hosts that differ in what flow.md holds: every document of up to MaxLines lines
ScanHosts ==
    {[Healthy EXCEPT !.docs = {DocPath(NameFlow)}, !.flow = JoinLines(ls)] : ls \in LineSeqs}

\* A task of one tool reads and writes that tool's part of the host only, so the
\* hosts vary one part at a time; CrossHosts vary the parts Deps goes through.
Hosts == GoHosts \cup MermaidHosts \cup GitHosts \cup KeyHosts \cup DockerHosts \cup CrossHosts
    \cup DiagramHosts

(***************************************************************************)
(* The state machine: one mage invocation after the other on one host      *)
(***************************************************************************)
NoCall == [op |-> "none", err |-> NoErr, tr |-> <<>>, sel |-> <<>>, notes |-> <<>>]

Init ==
    /\ env \in Hosts
    /\ last = NoCall
    /\ tick = 0

\* the task op ran to completion with result r; tick alternates, so that a call
\* that leaves the host and the result as they were is a step all the same
Call(op, r) ==
    /\ env' = r.env
    /\ last' = [op |-> op, err |-> r.err, tr |-> r.tr, sel |-> r.sel, notes |-> r.notes]
    /\ tick' = 1 - tick

RunGoVerify == Call("Go.Verify", GoVerify(env))

RunGoDeps == Call("Go.Deps", GoDeps(env))

RunMermaidVerify == Call("Mermaid.Verify", MermaidVerify(env))

RunMermaidVerifySystemLibs == Call("Mermaid.VerifySystemLibs", MermaidVerifySystemLibs(env))

RunMermaidDeps == Call("Mermaid.Deps", MermaidDeps(env))

RunGitVerify == Call("Git.Verify", GitVerify(env))

RunGitConfig == Call("Git.Config", GitConfig(env))

RunGitDeps == Call("Git.Deps", GitDeps(env))

RunDockerVerify == Call("Docker.Verify", DockerVerify(env))

RunDockerDeps == Call("Docker.Deps", DockerDeps(env))

RunDockerSecrets == Call("Docker.Secrets", DockerSecrets(env))

RunVerifyGitHubAppKey == Call("verifyGitHubAppKey", verifyGitHubAppKey(env))

RunDepsAll == Call("Deps.All", DepsAll(env))

RunDepsVerify == Call("Deps.Verify", DepsVerify(env))

RunDepsMinimal == Call("Deps.Minimal", DepsMinimal(env))

RunMermaidAll == Call("Mermaid.All", MermaidAll(env))

RunDiagramsRenderAll == Call("Diagrams.RenderAll", DiagramsRenderAll(env))

\* mage diagrams:renderOne <name>
RenderNames == {NameFlow, NameNotes, NameGhost}

RunDiagramsRenderOne ==
    \E name \in RenderNames : Call("Diagrams.RenderOne", DiagramsRenderOne(env, name))

RunDiagramsClean == Call("Diagrams.Clean", DiagramsClean(env))

Next ==
    \/ RunGoVerify
    \/ RunGoDeps
    \/ RunMermaidVerify
    \/ RunMermaidVerifySystemLibs
    \/ RunMermaidDeps
    \/ RunGitVerify
    \/ RunGitConfig
    \/ RunGitDeps
    \/ RunDockerVerify
    \/ RunDockerDeps
    \/ RunDockerSecrets
    \/ RunVerifyGitHubAppKey
    \/ RunDepsAll
    \/ RunDepsVerify
    \/ RunDepsMinimal
    \/ RunMermaidAll
    \/ RunDiagramsRenderAll
    \/ RunDiagramsRenderOne
    \/ RunDiagramsClean

Spec == Init /\ [][Next]_vars

\* the diagram tasks alone, on the hosts that differ in the document
InitScan ==
    /\ env \in ScanHosts
    /\ last = NoCall
    /\ tick = 0

NextScan ==
    \/ RunDiagramsRenderAll
    \/ RunDiagramsRenderOne
    \/ RunDiagramsClean

SpecScan == InitScan /\ [][NextScan]_vars

(***************************************************************************)
(* Vocabulary of the properties                                            *)
(***************************************************************************)
\* the commands that install or change something on the host or in the swarm
InstallerWords ==
    {<<"curl", "-L", "-o", "/tmp/go.tar.gz">>,
     <<"curl", "-s", "-L", "-o", "/tmp/go.tar.gz.sha256">>,
     <<"sudo", "rm", "-rf", "/usr/local/go">>,
     <<"sudo", "tar", "-C", "/usr/local", "-xzf">>,
     <<"sudo", "apt-get", "update", "-q">>,
     <<"sudo", "apt-get", "install", "-y">>,
     <<"npm", "install", "-g", "@mermaid-js/mermaid-cli@">>,
     <<"docker", "buildx", "install">>,
     <<"docker", "secret", "create">>}
    \cup {dockerInstallCmds[i].cmd : i \in 1..Len(dockerInstallCmds)}

\* the trace runs the command of these words
Runs(tr, words) == \E i \in 1..Len(tr) : tr[i].cmd = words

\* the trace runs a command that installs or changes something
RunsInstaller(tr) == \E i \in 1..Len(tr) : tr[i].cmd \in InstallerWords

\* the call just made (the step is a call of task op)
Called(op) == tick' # tick /\ last'.op = op

\* the Verify of each self-healing task
VerifyOf(op, e) ==
    CASE op = "Go.Deps" -> GoVerify(e)
      [] op = "Mermaid.Deps" -> MermaidVerify(e)
      [] op = "Docker.Deps" -> DockerVerify(e)
      [] op = "Git.Deps" -> GitVerify(e)

SelfHealing == {"Go.Deps", "Mermaid.Deps", "Docker.Deps", "Git.Deps"}

(***************************************************************************)
(* C1: when the Deps of a self-healing task (Go, Mermaid, Docker, Git)     *)
(* returns success, the Verify of the same task on the host as Deps left   *)
(* it succeeds; and when Deps ran an installer and the Verify of the host  *)
(* it left fails, Deps returned a failure.                                 *)
(***************************************************************************)
C1_EnsureLeavesVerified ==
    last.op \in SelfHealing =>
        /\ last.err = NoErr => VerifyOf(last.op, env).err = NoErr
        /\ (RunsInstaller(last.tr) /\ VerifyOf(last.op, env).err # NoErr) => last.err # NoErr

\* Go.Deps installed the toolchain and returned success
C1_Witness ==
    /\ last.op = "Go.Deps"
    /\ last.err = NoErr
    /\ Runs(last.tr, <<"sudo", "tar", "-C", "/usr/local", "-xzf">>)

(***************************************************************************)
(* C2: whenever the Verify of Go, Mermaid or Docker would pass             *)
(* on the host on which Deps is called, Deps returns success and runs no   *)
(* installing or mutating command.                                         *)
(***************************************************************************)
C2_VerifiedMeansNoInstall ==
    [][\A op \in {"Go.Deps", "Mermaid.Deps", "Docker.Deps"} :
          (Called(op) /\ VerifyOf(op, env).err = NoErr)
              => (last'.err = NoErr /\ ~RunsInstaller(last'.tr))]_vars

(***************************************************************************)
(* What does hold of C2: when Go.Verify would pass, Go.Deps returns        *)
(* success and runs no installing command.  Mermaid.Deps runs the          *)
(* system-library check first: when Mermaid.Verify would pass it runs no   *)
(* npm install, succeeds exactly when the system-library check does, and   *)
(* runs no installing command when every package is installed.             *)
(* Docker.Deps runs its setup steps before any Verify: when Docker.Verify  *)
(* would pass it runs neither the Docker Engine installation nor docker    *)
(* buildx install (it may still run docker secret create, and fail).       *)
(***************************************************************************)
C2_VerifiedMeansNoReinstall ==
    [][/\ (Called("Go.Deps") /\ GoVerify(env).err = NoErr)
            => (last'.err = NoErr /\ ~RunsInstaller(last'.tr))
       /\ (Called("Mermaid.Deps") /\ MermaidVerify(env).err = NoErr)
            => /\ ~Runs(last'.tr, <<"npm", "install", "-g", "@mermaid-js/mermaid-cli@">>)
               /\ last'.err = NoErr <=> MermaidVerifySystemLibs(env).err = NoErr
               /\ (\A i \in 1..Len(libs) : libs[i] \in env.libs) => ~RunsInstaller(last'.tr)
       /\ (Called("Docker.Deps") /\ DockerVerify(env).err = NoErr)
            => /\ \A i \in 1..Len(dockerInstallCmds) :
                     ~Runs(last'.tr, dockerInstallCmds[i].cmd)
               /\ ~Runs(last'.tr, <<"docker", "buildx", "install">>)]_vars

\* Mermaid.Deps found the CLI verified, installed missing packages and no CLI
C2_Witness ==
    /\ last.op = "Mermaid.Deps"
    /\ last.err = NoErr
    /\ Runs(last.tr, <<"sudo", "apt-get", "install", "-y">>)
    /\ ~Runs(last.tr, <<"npm", "install", "-g", "@mermaid-js/mermaid-cli@">>)

(***************************************************************************)
(* C3: ensure is idempotent.  When a Deps (or Docker.Secrets) has returned *)
(* success, a second call of the same task right after it, on the host the *)
(* first call left, returns success again and leaves the host as it was.   *)
(* (The claim says this of every first call and adds that the second call  *)
(* runs no installer; this is its case of a first call that succeeded.)    *)
(***************************************************************************)
C3_Idempotent ==
    [][\A op \in SelfHealing \cup {"Docker.Secrets"} :
          (Called(op) /\ last.op = op /\ last.err = NoErr)
              => (last'.err = NoErr /\ env' = env)]_vars

\* the names of the steps a trace announces with lines of this kind, in order
Steps(tr, kind) ==
    LET lines == SelectSeq(Cmds(tr), LAMBDA w : w[1] = kind)
    IN  [i \in 1..Len(lines) |-> lines[i][2]]

(***************************************************************************)
(* C4: Deps.All runs Go toolchain, Mermaid CLI, Git configuration in that  *)
(* order.  When the ensure of a step fails, Deps.All returns the failure   *)
(* "<step> failed" in front of the step's own error, and starts neither a  *)
(* later step nor the post-install verification.                           *)
(***************************************************************************)
C4_AllStopsAtFirstFailure ==
    [][Called("Deps.All") =>
          LET g == GoDeps(env)
              m == MermaidDeps(g.env)
              c == GitDeps(m.env)
              started == Steps(last'.tr, "Starting")
              verifying == Runs(last'.tr, <<"mg.Deps", "Deps.Verify">>)
          IN  /\ g.err # NoErr =>
                    /\ last'.err = <<Msg("Go toolchain failed", <<>>)>> \o g.err
                    /\ started = <<"Go toolchain">>
                    /\ ~verifying
              /\ (g.err = NoErr /\ m.err # NoErr) =>
                    /\ last'.err = <<Msg("Mermaid CLI failed", <<>>)>> \o m.err
                    /\ started = <<"Go toolchain", "Mermaid CLI">>
                    /\ ~verifying
              /\ (g.err = NoErr /\ m.err = NoErr /\ c.err # NoErr) =>
                    /\ last'.err = <<Msg("Git configuration failed", <<>>)>> \o c.err
                    /\ started = <<"Go toolchain", "Mermaid CLI", "Git configuration">>
                    /\ ~verifying
              /\ (g.err = NoErr /\ m.err = NoErr /\ c.err = NoErr) =>
                    /\ started = <<"Go toolchain", "Mermaid CLI", "Git configuration">>
                    /\ verifying
              \* no command of Mermaid or Git before its step is announced
              /\ \A i \in 1..Len(last'.tr) :
                    /\ last'.tr[i].cmd[1] \in {"dpkg", "mmdc", "npm"} =>
                          \E j \in 1..(i - 1) : last'.tr[j].cmd = <<"Starting", "Mermaid CLI">>
                    /\ last'.tr[i].cmd[1] = "git" =>
                          \E j \in 1..(i - 1) :
                              last'.tr[j].cmd = <<"Starting", "Git configuration">>]_vars

\* Deps.All stopped at the Mermaid CLI step
C4_Witness ==
    /\ last.op = "Deps.All"
    /\ last.err # NoErr
    /\ last.err[1].msg = "Mermaid CLI failed"
    /\ Len(last.err) > 1

VerifyOnly ==
    {"Deps.Verify", "Deps.Minimal", "Go.Verify", "Mermaid.Verify", "Git.Verify",
     "Docker.Verify"}

(***************************************************************************)
(* C5: the verify-only tasks (Deps.Verify, Deps.Minimal, Go.Verify,        *)
(* Mermaid.Verify, Git.Verify, Docker.Verify) run no installer and leave   *)
(* the host as it was, whether they succeed or fail; Deps.Verify stops at  *)
(* the first step whose Verify fails and names it.                         *)
(***************************************************************************)
C5_VerifyOnlyChangesNothing ==
    [][/\ \A op \in VerifyOnly :
             Called(op) => (env' = env /\ ~RunsInstaller(last'.tr))
       /\ Called("Deps.Verify") =>
             LET g == GoVerify(env)
                 m == MermaidVerify(env)
                 c == GitVerify(env)
                 checked == Steps(last'.tr, "Checking")
             IN  /\ g.err # NoErr =>
                       /\ last'.err = <<Msg("Go toolchain verification failed", <<>>)>> \o g.err
                       /\ checked = <<"Go toolchain">>
                 /\ (g.err = NoErr /\ m.err # NoErr) =>
                       /\ last'.err = <<Msg("Mermaid CLI verification failed", <<>>)>> \o m.err
                       /\ checked = <<"Go toolchain", "Mermaid CLI">>
                 /\ (g.err = NoErr /\ m.err = NoErr /\ c.err # NoErr) =>
                       /\ last'.err
                              = <<Msg("Git availability verification failed", <<>>)>> \o c.err
                       /\ checked = <<"Go toolchain", "Mermaid CLI", "Git availability">>
                 /\ (g.err = NoErr /\ m.err = NoErr /\ c.err = NoErr) =>
                       last'.err = NoErr]_vars

\* Deps.Verify stopped at a Mermaid CLI that is not the pinned one
C5_Witness ==
    /\ last.op = "Deps.Verify"
    /\ last.err # NoErr
    /\ last.err[1].msg = "Mermaid CLI verification failed"
    /\ ~env.mmdc.ok

Resolvers == {"verifyGitHubAppKey", "Docker.Secrets"}

\* the names in the key directory that match wiki-diagram-publisher*.pem
Matching(e) == {name \in e.files : MatchesKeyPattern(name)}

\* the trace looks at the cluster secret mount
ChecksMount(tr) ==
    \E i \in 1..Len(tr) : tr[i].cmd = <<"os.Stat">> /\ tr[i].args = <<swarmSecretPath>>

\* the trace searches the key directory
SearchesGlob(tr) == Runs(tr, <<"filepath.Glob">>)

\* the texts an error names, in any message of its chain
Named(err) == UNION {{err[i].args[j] : j \in 1..Len(err[i].args)} : i \in 1..Len(err)}

(***************************************************************************)
(* C6: when WIKI_APP_PRIVATE_KEY_PATH names a file that exists, each of    *)
(* verifyGitHubAppKey and Docker.Secrets succeeds with that path, whatever *)
(* the mount and the key directory hold, and looks at neither of them.     *)
(***************************************************************************)
C6_ValidOverrideWins ==
    (last.op \in Resolvers /\ env.keyEnv # <<>> /\ StatOk(env, env.keyEnv)) =>
        /\ last.err = NoErr
        /\ last.sel = env.keyEnv
        /\ ~ChecksMount(last.tr)
        /\ ~SearchesGlob(last.tr)

(***************************************************************************)
(* C7: when WIKI_APP_PRIVATE_KEY_PATH is set and names no file,            *)
(* verifyGitHubAppKey fails with "GitHub App key missing at <path>" and    *)
(* looks at neither the cluster secret mount nor the key directory, even   *)
(* when a mount or a local key exists.                                     *)
(***************************************************************************)
C7_BrokenOverrideFails ==
    (last.op = "verifyGitHubAppKey" /\ env.keyEnv # <<>> /\ ~StatOk(env, env.keyEnv)) =>
        /\ last.err # NoErr
        /\ last.err[1] = Msg("GitHub App key missing at", <<env.keyEnv>>)
        /\ last.sel = <<>>
        /\ ~ChecksMount(last.tr)
        /\ ~SearchesGlob(last.tr)

\* a broken override on a host that has both the mount and a local key
C7_Witness ==
    /\ last.op = "verifyGitHubAppKey"
    /\ env.keyEnv # <<>> /\ ~StatOk(env, env.keyEnv)
    /\ env.mount
    /\ Matching(env) # {}
    /\ last.err # NoErr

(***************************************************************************)
(* C8: when WIKI_APP_PRIVATE_KEY_PATH is unset and the mount path          *)
(* /run/secrets/wiki_diagram_app_key exists, the lookup (of                *)
(* verifyGitHubAppKey, and of Docker.Secrets too) succeeds with the mount  *)
(* path whatever the key directory holds, and does not search it.          *)
(***************************************************************************)
C8_MountShadowsLocal ==
    (last.op \in Resolvers /\ env.keyEnv = <<>> /\ env.mount) =>
        /\ last.err = NoErr
        /\ last.sel = swarmSecretPath
        /\ ~SearchesGlob(last.tr)
        /\ ~RunsInstaller(last.tr)

\* the mount is taken on a host whose key directory holds a matching key
C8_Witness ==
    /\ last.op = "verifyGitHubAppKey"
    /\ env.keyEnv = <<>> /\ env.mount
    /\ Matching(env) # {}
    /\ last.sel = swarmSecretPath

\* the greatest of a non-empty set of names, in byte order
Greatest(S) == CHOOSE x \in S : \A y \in S \ {x} : LexLess(y, x)

\* the file a lookup that searched the key directory settled on: the one
\* verifyGitHubAppKey went on to os.Stat, the one Docker.Secrets took as localKey
Picked(r, op) ==
    IF op = "Docker.Secrets" THEN r.sel ELSE r.tr[Len(r.tr)].args[1]

(***************************************************************************)
(* C9: when the lookup reaches the key directory and at least one name     *)
(* matches wiki-diagram-publisher*.pem, the file it settles on is the      *)
(* greatest matching name in lexicographic order, for every non-empty set  *)
(* of matching names; verifyGitHubAppKey and Docker.Secrets settle on the  *)
(* same file.                                                              *)
(***************************************************************************)
C9_GreatestMatchSelected ==
    (last.op \in Resolvers /\ SearchesGlob(last.tr) /\ Matching(env) # {}) =>
        /\ Picked(last, last.op) = Greatest(Matching(env))
        /\ last.err = NoErr => last.sel = Greatest(Matching(env))
        /\ (env.keyEnv = <<>> /\ last.op = "verifyGitHubAppKey") =>
               Picked(DockerSecrets(env), "Docker.Secrets") = Picked(last, last.op)
        /\ last.op = "Docker.Secrets" =>
               Picked(verifyGitHubAppKey([env EXCEPT !.keyEnv = <<>>]), "verifyGitHubAppKey")
                   = Picked(last, last.op)

\* of the January and the June key the June one is taken, with a name beside them
\* that sorts after both and does not match
C9_Witness ==
    /\ last.op = "verifyGitHubAppKey"
    /\ {KeyJan, KeyJun, KeyReader} \subseteq env.files
    /\ SearchesGlob(last.tr)
    /\ last.err = NoErr
    /\ last.sel = KeyJun

(***************************************************************************)
(* C10: when WIKI_APP_PRIVATE_KEY_PATH is unset, the mount is absent and   *)
(* no name matches, the lookup (of verifyGitHubAppKey and of               *)
(* Docker.Secrets) fails with an error that names the three sources: the   *)
(* variable, the Docker secret path and the local file pattern.            *)
(***************************************************************************)
C10_NotFoundNamesAllSources ==
    (last.op \in Resolvers /\ env.keyEnv = <<>> /\ ~env.mount /\ Matching(env) = {}) =>
        /\ last.err # NoErr
        /\ {EnvVarName, swarmSecretPath, LocalPattern} \subseteq Named(last.err)

\* this host is a swarm manager, as far as `docker info` tells
IsManager(e) == e.dockerBin /\ e.daemon /\ TrimSpace(e.swarm) = TrueWord

(***************************************************************************)
(* C11: when Docker.Secrets has found a local key (no mount, a matching    *)
(* name) and `docker info` does not report this host as a swarm manager,   *)
(* the query failing included, Docker.Secrets returns success and runs no  *)
(* `docker secret create`.                                                 *)
(***************************************************************************)
C11_NoCreateOffManager ==
    (last.op = "Docker.Secrets" /\ ~env.mount /\ Matching(env) # {} /\ ~IsManager(env)) =>
        /\ last.err = NoErr
        /\ Runs(last.tr, <<"docker", "info", "--format", "{{.Swarm.ControlAvailable}}">>)
        /\ ~Runs(last.tr, <<"docker", "secret", "create">>)

\* the query failed (no daemon) on a host with a local key
C11_Witness ==
    /\ last.op = "Docker.Secrets"
    /\ ~env.mount /\ Matching(env) # {}
    /\ ~env.daemon
    /\ last.err = NoErr

(***************************************************************************)
(* C12: on a swarm manager, when the store rejects `docker secret create`  *)
(* because the secret is already there, Docker.Secrets returns success;    *)
(* any other failure of the create is returned as "failed to create Docker *)
(* secret" in front of its cause.                                          *)
(***************************************************************************)
C12_AlreadyExistsIsSuccess ==
    [][(Called("Docker.Secrets") /\ Runs(last'.tr, <<"docker", "secret", "create">>)) =>
          /\ env.inStore => last'.err = NoErr
          /\ (~env.inStore /\ env.storeDown) =>
                /\ Len(last'.err) > 1
                /\ last'.err[1] = Msg("failed to create Docker secret", <<>>)]_vars

\* the version the go on PATH reports: the third word of its line, less "go"
ReportedGo(e) == TrimPrefix(Fields(GoVersionOutput(e).out)[3], GoPrefix)

\* `go version` answers with a line of three words or more
GoReports(e) == GoVersionOutput(e).ok /\ Len(Fields(GoVersionOutput(e).out)) >= 3

(***************************************************************************)
(* C13: for Go (TargetGoVersion) and the Mermaid CLI                       *)
(* (TargetMermaidVersion) and every version the installed tool reports,    *)
(* Verify succeeds exactly when the reported version equals the pin, and   *)
(* otherwise fails with a version mismatch carrying the version found and  *)
(* the one expected.                                                       *)
(***************************************************************************)
C13_PinnedVersionOnly ==
    /\ (last.op = "Go.Verify" /\ GoReports(env)) =>
          /\ last.err = NoErr <=> ReportedGo(env) = TargetGoVersion
          /\ last.err # NoErr =>
                last.err = <<Msg("Go version mismatch", <<ReportedGo(env), TargetGoVersion>>)>>
    /\ (last.op = "Mermaid.Verify" /\ env.mmdc.ok) =>
          /\ last.err = NoErr <=> TrimSpace(env.mmdc.out) = TargetMermaidVersion
          /\ last.err # NoErr =>
                last.err = <<Msg("Mermaid CLI version mismatch",
                                 <<TrimSpace(env.mmdc.out), TargetMermaidVersion>>)>>

(***************************************************************************)
(* C14: the drift check is advisory.  Go.Verify succeeds exactly when the  *)
(* go on PATH reports the pinned version, whatever the fetch of the latest *)
(* release does: fail, answer nothing or nothing readable, or name another *)
(* version.                                                                *)
(***************************************************************************)
C14_DriftCheckAdvisory ==
    last.op = "Go.Verify" =>
        /\ (GoReports(env) /\ ReportedGo(env) = TargetGoVersion) =>
              /\ last.err = NoErr
              /\ Runs(last.tr, <<"curl", "-s", "https://go.dev/VERSION?m=text">>)
        /\ ~(GoReports(env) /\ ReportedGo(env) = TargetGoVersion) => last.err # NoErr

\* the pinned toolchain verified although the fetch failed
C14_Witness ==
    /\ last.op = "Go.Verify"
    /\ ~env.goRemote.ok
    /\ Runs(last.tr, <<"curl", "-s", "https://go.dev/VERSION?m=text">>)
    /\ last.err = NoErr

\* how many times the trace runs the command of these words
Count(tr, words) == Len(SelectSeq(tr, LAMBDA c : c.cmd = words))

\* the place of the n-th run of the command of these words in the trace (0: none)
Nth(tr, words, n) ==
    IF Count(tr, words) < n THEN 0
    ELSE CHOOSE i \in 1..Len(tr) :
             tr[i].cmd = words /\ Count(SubSeq(tr, 1, i), words) = n

GoInstallWords ==
    {<<"curl", "-L", "-o", "/tmp/go.tar.gz">>,
     <<"curl", "-s", "-L", "-o", "/tmp/go.tar.gz.sha256">>,
     <<"sha256sum", "-c">>,
     <<"sudo", "rm", "-rf", "/usr/local/go">>,
     <<"sudo", "tar", "-C", "/usr/local", "-xzf">>,
     <<"/usr/local/go/bin/go", "version">>}

NpmInstallWords == <<"npm", "install", "-g", "@mermaid-js/mermaid-cli@">>

(***************************************************************************)
(* C15: no automatic retry.  One call of Go.Deps or Mermaid.Deps starts    *)
(* the installer at most once and runs Verify at most twice, once before   *)
(* and once after the install; a failed install ends the call with         *)
(* "failed to install" and no second Verify, a failed re-verify ends it    *)
(* with a failure, and nothing of the installer runs after the re-verify.  *)
(***************************************************************************)
C15_NoRetry ==
    /\ last.op = "Go.Deps" =>
          /\ \A w \in GoInstallWords : Count(last.tr, w) <= 1
          /\ Count(last.tr, <<"go", "version">>) \in 1..2
          /\ \A i \in 1..Len(last.tr) :
                last.tr[i].cmd \in GoInstallWords =>
                    /\ Nth(last.tr, <<"go", "version">>, 1) < i
                    /\ Count(last.tr, <<"go", "version">>) = 2 =>
                          i < Nth(last.tr, <<"go", "version">>, 2)
          /\ (last.err # NoErr /\ last.err[1].msg = "failed to install Go") =>
                Count(last.tr, <<"go", "version">>) = 1
          /\ (Count(last.tr, <<"go", "version">>) = 2 /\ GoVerify(env).err # NoErr) =>
                last.err # NoErr
    /\ last.op = "Mermaid.Deps" =>
          /\ Count(last.tr, NpmInstallWords) <= 1
          /\ Count(last.tr, <<"mmdc", "--version">>) <= 2
          /\ \A i \in 1..Len(last.tr) :
                last.tr[i].cmd = NpmInstallWords =>
                    /\ Nth(last.tr, <<"mmdc", "--version">>, 1) \in 1..(i - 1)
                    /\ Count(last.tr, <<"mmdc", "--version">>) = 2 =>
                          i < Nth(last.tr, <<"mmdc", "--version">>, 2)
          /\ (last.err # NoErr /\ last.err[1].msg = "failed to install Mermaid CLI") =>
                Count(last.tr, <<"mmdc", "--version">>) = 1
          /\ (Count(last.tr, <<"mmdc", "--version">>) = 2 /\ MermaidVerify(env).err # NoErr) =>
                last.err # NoErr

\* Go.Deps installed once and the re-verify failed
C15_Witness ==
    /\ last.op = "Go.Deps"
    /\ last.err # NoErr
    /\ last.err[1].msg = "Go installation did not verify successfully"
    /\ Count(last.tr, <<"go", "version">>) = 2
    /\ Count(last.tr, <<"curl", "-L", "-o", "/tmp/go.tar.gz">>) = 1

(***************************************************************************)
(* C16: the render pipeline asks for a verified renderer first.  In a call *)
(* of Mermaid.All, Diagrams.RenderAll or Diagrams.RenderOne, a document is *)
(* read, an .mmd file written or mmdc started on one only after            *)
(* "mmdc --version" ran in that call and the Mermaid CLI verification      *)
(* passed; when it does not pass, nothing is extracted or rendered.        *)
(***************************************************************************)
RenderEntries == {"Mermaid.All", "Diagrams.RenderAll", "Diagrams.RenderOne"}

RenderWorkWords == {<<"os.ReadFile">>, <<"os.WriteFile">>, <<"mmdc", "-i", "-o">>}

VerifiedBefore(tr, i) ==
    /\ \E j \in 1..(i - 1) : tr[j].cmd = <<"mmdc", "--version">>
    /\ MermaidVerify(env).err = NoErr

C16_VerifiedBeforeRender ==
    last.op \in RenderEntries =>
        \A i \in 1..Len(last.tr) :
            last.tr[i].cmd \in RenderWorkWords => VerifiedBefore(last.tr, i)

\* What does hold: Mermaid.All, which goes through Deps.All, does its render work
\* after a verification that passed.
C16_AllVerifiesBeforeRender ==
    last.op = "Mermaid.All" =>
        \A i \in 1..Len(last.tr) :
            last.tr[i].cmd \in RenderWorkWords => VerifiedBefore(last.tr, i)

C16_AllWitness ==
    /\ last.op = "Mermaid.All"
    /\ last.err = NoErr
    /\ Runs(last.tr, <<"mmdc", "-i", "-o">>)
    /\ Runs(last.tr, <<"npm", "install", "-g", "@mermaid-js/mermaid-cli@">>)

(***************************************************************************)
(* C17: a missing Git identity is advisory.  Git.Config returns success    *)
(* whether user.name and user.email are set or not, the queries failing    *)
(* included, so Git.Deps succeeds exactly when Git.Verify does.            *)
(***************************************************************************)
C17_IdentityAdvisory ==
    /\ last.op = "Git.Config" => last.err = NoErr
    /\ last.op = "Git.Deps" =>
          /\ last.err = NoErr <=> GitVerify(env).err = NoErr
          /\ last.err = GitVerify(env).err

\* Git.Deps succeeded on a host with no user.name
C17_Witness ==
    /\ last.op = "Git.Deps"
    /\ TrimSpace(env.gitName) = <<>>
    /\ Runs(last.tr, <<"git", "config", "--global", "user.name">>)
    /\ last.err = NoErr

\* the installer of Go got as far as fetching the archive, and fetched it
GoFetched(tr, e) == Runs(tr, <<"curl", "-L", "-o", "/tmp/go.tar.gz">>) /\ e.goNet # "down"

(***************************************************************************)
(* C18: in the Go installer, when the checksum file is missing or cannot   *)
(* be fetched the installer goes on to the extraction and reports no       *)
(* checksum error; when a checksum is there and does not match the         *)
(* archive, the installer fails with "checksum verification failed" and    *)
(* extracts nothing.                                                       *)
(***************************************************************************)
C18_ChecksumOptional ==
    (last.op = "Go.Deps" /\ GoFetched(last.tr, env)) =>
        /\ env.goNet \in {"nosum", "sum404"} =>
              /\ Runs(last.tr, <<"sudo", "rm", "-rf", "/usr/local/go">>)
              /\ \A i \in 1..Len(last.err) : last.err[i].msg # "checksum verification failed"
        /\ env.goNet = "sumbad" =>
              /\ Len(last.err) > 2
              /\ last.err[1].msg = "failed to install Go"
              /\ last.err[2].msg = "checksum verification failed"
              /\ ~Runs(last.tr, <<"sudo", "rm", "-rf", "/usr/local/go">>)
              /\ ~Runs(last.tr, <<"sudo", "tar", "-C", "/usr/local", "-xzf">>)

\* runtime.GOOS and runtime.GOARCH are ones the installer accepts
PlatformSupported(e) == e.goos \in {linux, darwin} /\ e.goarch \in {amd64, arm64}

RemoveGoWords == <<"sudo", "rm", "-rf", "/usr/local/go">>

(***************************************************************************)
(* C19: no partial work in the Go installer.  /usr/local/go is removed     *)
(* only after the platform was accepted, the download of the archive       *)
(* succeeded and the checksum step did not fail; on an unsupported OS or   *)
(* architecture the installer returns its error before it runs any         *)
(* external command.                                                       *)
(***************************************************************************)
C19_NoPartialWork ==
    last.op = "Go.Deps" =>
        /\ Runs(last.tr, RemoveGoWords) =>
              /\ PlatformSupported(env)
              /\ env.goNet \notin {"down", "sumbad", "sum404"}
              /\ Nth(last.tr, <<"curl", "-L", "-o", "/tmp/go.tar.gz">>, 1)
                     \in 1..(Nth(last.tr, RemoveGoWords, 1) - 1)
              /\ Nth(last.tr, <<"sha256sum", "-c">>, 1) < Nth(last.tr, RemoveGoWords, 1)
        /\ \A i \in 1..Len(last.tr) :
              last.tr[i].cmd = <<"sudo", "tar", "-C", "/usr/local", "-xzf">> =>
                  Nth(last.tr, RemoveGoWords, 1) \in 1..(i - 1)
        /\ ~PlatformSupported(env) =>
              /\ \A i \in 1..Len(last.tr) : last.tr[i].cmd \notin GoInstallWords
              /\ last.err # NoErr =>
                    /\ last.tr = <<Cmd(<<"go", "version">>, <<>>)>>
                    /\ last.err \in
                          {<<Msg("failed to install Go", <<>>),
                             Msg("unsupported OS", <<env.goos>>)>>,
                           <<Msg("failed to install Go", <<>>),
                             Msg("unsupported architecture", <<env.goarch>>)>>}
                    /\ last.err[2].msg = "unsupported OS" <=> env.goos \notin {linux, darwin}

\* the installer refused a platform it does not know
C19_Witness ==
    /\ last.op = "Go.Deps"
    /\ env.goos = linux /\ env.goarch = i386
    /\ last.err # NoErr
    /\ last.err[2].msg = "unsupported architecture"

AptInstallWords == <<"sudo", "apt-get", "install", "-y">>

\* the packages of the fixed list that are not installed on e, in list order
MissingLibs(e) == SelectSeq(libs, LAMBDA pkg : pkg \notin e.libs)

(***************************************************************************)
(* C20 as claimed: whenever a package of the list is missing,              *)
(* Mermaid.VerifySystemLibs issues exactly one batched install, of exactly *)
(* the missing packages.                                                   *)
(***************************************************************************)
C20_ExactlyOneInstall ==
    [][(Called("Mermaid.VerifySystemLibs") /\ MissingLibs(env) # <<>>) =>
          /\ Count(last'.tr, AptInstallWords) = 1
          /\ \A i \in 1..Len(last'.tr) :
                last'.tr[i].cmd = AptInstallWords => last'.tr[i].args = MissingLibs(env)]_vars

(***************************************************************************)
(* C20 amended: Mermaid.VerifySystemLibs probes every package of the       *)
(* list, in order.  When all are present it runs no privileged command and *)
(* changes nothing.  Otherwise it runs apt-get update and then, unless the *)
(* update failed, one apt-get install whose package arguments are exactly  *)
(* the missing packages in list order; it probes no package afterwards,    *)
(* and returns success exactly when the update and the install succeed.    *)
(***************************************************************************)
C20_BatchInstallOfMissing ==
    [][Called("Mermaid.VerifySystemLibs") =>
          LET tr == last'.tr
              n == Len(libs)
          IN  /\ Len(tr) >= n
              /\ \A i \in 1..n : tr[i] = Cmd(<<"dpkg", "-s">>, <<libs[i]>>)
              /\ \A i \in (n + 1)..Len(tr) : tr[i].cmd # <<"dpkg", "-s">>
              /\ MissingLibs(env) = <<>> =>
                    /\ Len(tr) = n
                    /\ last'.err = NoErr
                    /\ env' = env
              /\ MissingLibs(env) # <<>> =>
                    /\ Count(tr, AptInstallWords) <= 1
                    /\ Count(tr, <<"sudo", "apt-get", "update", "-q">>) = 1
                    /\ \A i \in 1..Len(tr) :
                          tr[i].cmd = AptInstallWords =>
                              /\ tr[i].args = MissingLibs(env)
                              /\ i = Len(tr)
                              /\ tr[i - 1].cmd = <<"sudo", "apt-get", "update", "-q">>
                    /\ last'.err = NoErr <=> env.apt = "ok"
                    /\ last'.err = NoErr =>
                          /\ Count(tr, AptInstallWords) = 1
                          /\ env'.libs = env.libs \cup {libs[i] : i \in 1..n}
                    /\ env.apt = "updfail" => Count(tr, AptInstallWords) = 0]_vars

\* some packages, not all, were missing and one install brought them
C20_Witness ==
    /\ last.op = "Mermaid.VerifySystemLibs"
    /\ last.err = NoErr
    /\ Count(last.tr, AptInstallWords) = 1
    /\ Len(last.tr[Len(last.tr)].args) \in 1..(Len(libs) - 1)

(***************************************************************************)
(* C21: provisioning is a no-op when the mount is there.  When             *)
(* /run/secrets/wiki_diagram_app_key exists, Docker.Secrets returns        *)
(* success having run os.Stat on the mount and nothing else: no search of  *)
(* the key directory, no `docker info`, no `docker secret create`, and the *)
(* host and the swarm's store are as they were.                            *)
(***************************************************************************)
C21_MountMakesSecretsNoOp ==
    [][(Called("Docker.Secrets") /\ env.mount) =>
          /\ last'.err = NoErr
          /\ env' = env
          /\ last'.tr = <<Cmd(<<"os.Stat">>, <<swarmSecretPath>>)>>
          /\ ~Runs(last'.tr, <<"filepath.Glob">>)
          /\ ~Runs(last'.tr, <<"docker", "info", "--format", "{{.Swarm.ControlAvailable}}">>)
          /\ ~Runs(last'.tr, <<"docker", "secret", "create">>)]_vars

\* the mount is there on a swarm manager with a local key whose secret is not in the
\* store yet: without the mount the call would have created it
C21_Witness ==
    /\ last.op = "Docker.Secrets"
    /\ env.mount /\ Matching(env) # {} /\ IsManager(env) /\ ~env.inStore
    /\ last.err = NoErr

(***************************************************************************)
(* C22: Deps.All reports success only after the verify-only pipeline       *)
(* passed.  A call of Deps.All that returns success has started its three  *)
(* ensure steps, then run Deps.Verify, which checked Go toolchain, Mermaid *)
(* CLI and Git availability in that order after the last ensure step, and  *)
(* each of the three Verify passes on the host it leaves.  On a host      *)
(* where Deps.Verify has just failed, the post-install step of Deps.All    *)
(* does not end in success.                                                *)
(***************************************************************************)
PlacesOf(tr, kind) == {i \in 1..Len(tr) : tr[i].cmd[1] = kind}

C22_SuccessMeansVerified ==
    /\ (last.op = "Deps.All" /\ last.err = NoErr) =>
          /\ Steps(last.tr, "Starting") = <<"Go toolchain", "Mermaid CLI", "Git configuration">>
          /\ Count(last.tr, <<"mg.Deps", "Deps.Verify">>) = 1
          /\ Steps(last.tr, "Checking") = <<"Go toolchain", "Mermaid CLI", "Git availability">>
          /\ \A i \in PlacesOf(last.tr, "Starting") :
                i < Nth(last.tr, <<"mg.Deps", "Deps.Verify">>, 1)
          /\ \A i \in PlacesOf(last.tr, "Checking") :
                Nth(last.tr, <<"mg.Deps", "Deps.Verify">>, 1) < i
          /\ \A i \in 1..Len(last.tr) :
                last.tr[i].cmd \in InstallerWords =>
                    i < Nth(last.tr, <<"mg.Deps", "Deps.Verify">>, 1)
          /\ GoVerify(env).err = NoErr
          /\ MermaidVerify(env).err = NoErr
          /\ GitVerify(env).err = NoErr
    /\ (last.op = "Deps.Verify" /\ last.err # NoErr) =>
          PostInstallVerify(Ok(env)).err # NoErr

\* Deps.All succeeded on a host where it had to install the Mermaid CLI
C22_Witness ==
    /\ last.op = "Deps.All"
    /\ last.err = NoErr
    /\ Runs(last.tr, <<"npm", "install", "-g", "@mermaid-js/mermaid-cli@">>)
    /\ Len(Steps(last.tr, "Checking")) = 3

(***************************************************************************)
(* C23: the two credential lookups agree.  When Docker.Secrets returns     *)
(* success, verifyGitHubAppKey run right after it succeeds; when           *)
(* verifyGitHubAppKey would succeed, Docker.Secrets does not fail for lack *)
(* of a key; and so, on a host where Docker.Verify would pass, Docker.Deps *)
(* fails neither at the key step nor at the post-setup verification.       *)
(***************************************************************************)
C23_LookupsAgree ==
    [][/\ (Called("Docker.Secrets") /\ last'.err = NoErr) =>
             verifyGitHubAppKey(env').err = NoErr
       /\ (Called("Docker.Secrets") /\ verifyGitHubAppKey(env).err = NoErr) =>
             (last'.err = NoErr \/ last'.err[1].msg # "no local GitHub App key found in")
       /\ (Called("Docker.Deps") /\ DockerVerify(env).err = NoErr) =>
             \/ last'.err = NoErr
             \/ last'.err[1].msg \notin {"failed ensuring GitHub App key secret",
                                        "post-setup verification failed"}]_vars

(***************************************************************************)
(* C24: extractMMD is a two-state scanner.  A fence is a line whose        *)
(* trimmed text starts with three grave accents, an opening fence one      *)
(* whose trimmed text starts with the mermaid fence.  The lines written    *)
(* are, in input order, the lines that are no fence and whose nearest      *)
(* fence above them is an opening fence: a block that is never closed      *)
(* runs to the end of the input.  Fences and the lines of blocks of other  *)
(* languages are never written; when there is no such line the call fails  *)
(* with "no mermaid block found" and writes no file.                       *)
(***************************************************************************)
IsFence(line) == HasPrefix(TrimSpace(line), Fence)

IsOpening(line) == HasPrefix(TrimSpace(line), FenceMermaid)

\* line i is no fence and the nearest fence above it opens a mermaid block
InBlock(lines, i) ==
    /\ ~IsFence(lines[i])
    /\ \E o \in 1..(i - 1) :
          /\ IsOpening(lines[o])
          /\ \A k \in (o + 1)..(i - 1) : ~IsFence(lines[k])

\* and a fence below it closes the block
InClosedBlock(lines, i) ==
    /\ InBlock(lines, i)
    /\ \E c \in (i + 1)..Len(lines) : IsFence(lines[c])

PickLines(lines, places) == [k \in 1..Len(places) |-> lines[places[k]]]

BlockLines(lines) ==
    PickLines(lines, SelectSeq([i \in 1..Len(lines) |-> i], LAMBDA i : InBlock(lines, i)))

ClosedBlockLines(lines) ==
    PickLines(lines, SelectSeq([i \in 1..Len(lines) |-> i],
                               LAMBDA i : InClosedBlock(lines, i)))

\* the call read flow.md
ScannedFlow ==
    \E i \in 1..Len(last.tr) :
        last.tr[i].cmd = <<"os.ReadFile">> /\ last.tr[i].args = <<DocPath(NameFlow)>>

\* the call wrote exactly these lines, or failed and wrote nothing when there are none
WroteExactly(want) ==
    IF want = <<>>
    THEN /\ last.err # NoErr
         /\ last.err[Len(last.err)] = Msg("no mermaid block found in", <<DocPath(NameFlow)>>)
         /\ ~Runs(last.tr, <<"os.WriteFile">>)
         /\ ~Runs(last.tr, <<"mmdc", "-i", "-o">>)
    ELSE /\ Count(last.tr, <<"os.WriteFile">>) = 1
         /\ [path |-> mmdPathOf(NameFlow), data |-> JoinLines(want)] \in env.gen

\* the claim as stated: only the lines of blocks that a fence closes
C24_OnlyClosedBlocks ==
    ScannedFlow => WroteExactly(ClosedBlockLines(SplitLines(env.flow)))

C24_BlockLinesWritten ==
    ScannedFlow => WroteExactly(BlockLines(SplitLines(env.flow)))

\* a document whose mermaid block is never closed, after a block of another language
C24_Witness ==
    /\ ScannedFlow
    /\ last.err = NoErr
    /\ BlockLines(SplitLines(env.flow)) # ClosedBlockLines(SplitLines(env.flow))
    /\ \E i \in 1..Len(SplitLines(env.flow)) :
          IsFence(SplitLines(env.flow)[i]) /\ ~IsOpening(SplitLines(env.flow)[i])

====
